---- MODULE Spec2Model ----
(***************************************************************************)
(* Memory & Retrieval Engine of bookwith (apps/api): the retry wrapper,    *)
(* the multi-tenant chat-memory and annotation stores, the collection      *)
(* manager, the prompt builder, the summarization pass and the             *)
(* message-creation handler that drives them.                              *)
(*                                                                         *)
(* The vector store (Weaviate) is an external collaborator.  Its data is   *)
(* modelled as one set of objects per tenant; a failed single-object call  *)
(* has no effect on the data.                                              *)
(***************************************************************************)
EXTENDS Integers, Sequences, FiniteSets, TLC

(***************************************************************************)
(* Program constants                                                       *)
(***************************************************************************)
\* SummarizationService.memory_summarize_threshold
memory_summarize_threshold == 20

\* BaseVectorStore.TYPE_MESSAGE / TYPE_SUMMARY
TYPE_MESSAGE == "message"
TYPE_SUMMARY == "summary"

\* @retry_on_error(max_retries=...) of the wrapped store calls
AddMemoryMaxRetries == 3
MarkMaxRetries == 2
GetUnsummarizedMaxRetries == 2
EncodeTextMaxRetries == 2

(***************************************************************************)
(* Bounds of the model                                                     *)
(***************************************************************************)
MaxFails == 4          \* failures of the wrapped operation before it succeeds
MaxRetriesArg == 4     \* largest max_retries argument tried
MaxDelayArg == 2       \* largest initial_delay argument tried
MaxBackoffArg == 3     \* largest backoff_factor argument tried

Users == {"u1", "u2"}
Chats == {"c1", "c2"}
Books == {"b1", "b2"}
Handlers == {"h1", "h2"}
AnnotationIds == {"a1", "a2"}
Texts == {"t1", "t2"}
MaxObjects == 2        \* objects inserted by direct store calls
MaxFaults == 4         \* failures injected into one run of sequential passes
MaxOverlapFaults == 1  \* failures injected into one run of overlapping passes
MaxE2EFaults == 1      \* failures injected into one run of the message handlers
MaxMessages == 22      \* rows of the message table
MaxDeletes == 1        \* soft-deleted rows of the message table
MaxPasses == 2         \* summarize_chat calls that start a pass in one run
MaxCountArg == 40      \* largest message_count passed to summarize_chat
MaxBacklog == 21       \* largest backlog of message objects at the start
MaxPartial == 2        \* updates applied before a failing marking attempt raises
MaxEnsureCalls == 2    \* calls of _ensure_collections by one caller
BlockUnit == 16228     \* characters in one unit of memory / history / query text
MaxBlockUnits == 3     \* largest memory, history or query text, in units
MaxQueryPad == 1       \* four-character words added to the query
MaxChunks == 2         \* chunks one response stream yields
MaxConstructions == 2  \* store objects one request thread constructs

VARIABLES
    chatMemory,        \* ChatMemory collection: tenant -> set of objects
    annotations,       \* BookAnnotation collection: tenant -> set of objects
    nextUuid,          \* next object uuid the store hands out
    nullMatchesFalse,  \* store behaviour: does equal(False) match an unset bool
    messages,          \* relational message table, in insertion order
    hs,                \* per request handler: position and locals
    passes,            \* chat -> number of summarization passes started
    faultsLeft,        \* failures the environment may still inject
    lastSearch,        \* response of the last direct store call, if a search
    now,               \* wall clock, in seconds
    retry,             \* one run of a retry_on_error wrapper
    lastCall,          \* the last direct call of the annotation store
    collections,       \* collection name -> its state in the vector store
    ensure,            \* per caller of _ensure_collections: position and locals
    prompt,            \* one call of build_memory_prompt: inputs and locals
    baseStore          \* BaseVectorStore class attributes and constructors

vars == <<chatMemory, annotations, nextUuid, nullMatchesFalse, messages, hs,
          passes, faultsLeft, lastSearch, now, retry, lastCall, collections,
          ensure, prompt, baseStore>>

(***************************************************************************)
(* retry_on_error                                                          *)
(***************************************************************************)
\* `retries += 1; if retries > max_retries: raise` -- the value of the test
RetryExhausted_off_by_one(retries, max_retries) == retries + 1 >= max_retries

RetryExhausted(retries, max_retries) == retries + 1 > max_retries

\* bare `raise` inside `except Exception as e`: the exception being handled,
\* which is the one of invocation number `calls`, propagates
RaisedError_first(calls) == 1

RaisedError(calls) == calls

\* delay *= backoff_factor
NextDelay_additive(delay, backoff_factor) == delay + backoff_factor

NextDelay(delay, backoff_factor) == delay * backoff_factor

\* `raised` is the number of the invocation whose error reaches the caller
RetryIdle ==
    [pc |-> "call", retries |-> 0, delay |-> 1, calls |-> 0, sleeps |-> <<>>,
     N |-> 0, max_retries |-> 3, initial_delay |-> 1, backoff_factor |-> 2,
     outcome |-> "none", raised |-> 0]

\* wrapper entry: retries = 0, delay = initial_delay
RetryStart(N, max_retries, initial_delay, backoff_factor) ==
    [pc |-> "call", retries |-> 0, delay |-> initial_delay, calls |-> 0,
     sleeps |-> <<>>, N |-> N, max_retries |-> max_retries,
     initial_delay |-> initial_delay, backoff_factor |-> backoff_factor,
     outcome |-> "none", raised |-> 0]

\* one pass through `try: return func(...)`: the first N invocations raise
RetryCall ==
    /\ retry.pc = "call"
    /\ IF retry.calls < retry.N
         THEN \* except Exception: retries += 1; raise or fall through to sleep
              retry' = [retry EXCEPT
                  !.calls = @ + 1,
                  !.retries = @ + 1,
                  !.pc = IF RetryExhausted(retry.retries, retry.max_retries)
                           THEN "raised" ELSE "sleep",
                  !.outcome = IF RetryExhausted(retry.retries, retry.max_retries)
                                THEN "error" ELSE "none",
                  !.raised = IF RetryExhausted(retry.retries, retry.max_retries)
                               THEN RaisedError(retry.calls + 1) ELSE 0]
         ELSE retry' = [retry EXCEPT !.calls = @ + 1, !.pc = "returned",
                                     !.outcome = "success"]
    /\ UNCHANGED <<chatMemory, annotations, nextUuid, nullMatchesFalse,
                   messages, hs, passes, faultsLeft, lastSearch, now,
                   lastCall, collections, ensure, prompt, baseStore>>

\* time.sleep(delay); delay *= backoff_factor
RetrySleep ==
    /\ retry.pc = "sleep"
    /\ retry' = [retry EXCEPT !.sleeps = Append(@, retry.delay),
                              !.delay = NextDelay(@, retry.backoff_factor),
                              !.pc = "call"]
    /\ UNCHANGED <<chatMemory, annotations, nextUuid, nullMatchesFalse,
                   messages, hs, passes, faultsLeft, lastSearch, now,
                   lastCall, collections, ensure, prompt, baseStore>>

(***************************************************************************)
(* Store primitives (Weaviate multi-tenant collections)                    *)
(***************************************************************************)
Range(seq) == {seq[i] : i \in 1..Len(seq)}

Min(a, b) == IF a <= b THEN a ELSE b

\* the objects a query with `limit` may return out of the matching ones
LimitChoices(S, n) ==
    IF Cardinality(S) <= n THEN {S}
    ELSE {T \in SUBSET S : Cardinality(T) = n}

\* collection.with_tenant(user_id): the partition of that tenant only
with_tenant_shared(coll, user_id) == UNION {coll[u] : u \in DOMAIN coll}

with_tenant(coll, user_id) == coll[user_id]

\* collection.with_tenant(user_id).data.insert(properties, vector)
DataInsert(coll, user_id, properties, uuid) ==
    [coll EXCEPT ![user_id] =
        @ \cup {[properties EXCEPT !.uuid = uuid]}]

\* Filter.by_property("is_summarized").equal(False).  No code path writes
\* is_summarized = False: message objects are inserted without the property
\* ("unset").  Whether the store's equal(False) matches an unset bool is the
\* store's behaviour, not the repository's; it is fixed per run by
\* nullMatchesFalse and both behaviours are explored.
IsSummarizedEqualsFalse(o) ==
    \/ o.is_summarized = "false"
    \/ (o.is_summarized = "unset" /\ nullMatchesFalse)

(***************************************************************************)
(* ChatMemoryStore                                                         *)
(***************************************************************************)
\* metadata built by _vectorize_message_background: no is_summarized key
MessageMetadata(message) ==
    [uuid |-> 0,
     chat_id |-> message.chat_id,
     content |-> <<message.id>>,
     created_at |-> message.created_at,
     memory_type |-> TYPE_MESSAGE,
     message_id |-> message.id,
     sender |-> message.sender_type,
     user_id |-> message.sender_id,
     is_summarized |-> "unset"]

\* summary_id = f"summary_{chat_id}_{timestamp}": never a message id
SummaryIdBase == 1000

\* metadata built by _save_summary_to_vector_store
SummaryMetadata(summary, chat_id, user_id, timestamp) ==
    [uuid |-> 0,
     chat_id |-> chat_id,
     content |-> summary,
     created_at |-> timestamp,
     memory_type |-> TYPE_SUMMARY,
     message_id |-> SummaryIdBase + timestamp,
     sender |-> "system",
     user_id |-> user_id,
     is_summarized |-> "unset"]

\* where_filter of search_chat_memories, inside the tenant
ChatMemoryMatches(coll, user_id, chat_id) ==
    {o \in with_tenant(coll, user_id) :
        /\ o.user_id = user_id
        /\ o.chat_id = chat_id
        /\ o.memory_type \in {TYPE_MESSAGE, TYPE_SUMMARY}}

\* where_filter of get_unsummarized_messages, inside the tenant
UnsummarizedMatches(coll, user_id, chat_id) ==
    {o \in with_tenant(coll, user_id) :
        /\ o.user_id = user_id
        /\ o.chat_id = chat_id
        /\ o.memory_type = TYPE_MESSAGE
        /\ IsSummarizedEqualsFalse(o)}

\* where_filter of mark_messages_as_summarized, inside the tenant
MarkMatches_whole_chat(coll, user_id, chat_id, message_ids) ==
    {o \in with_tenant(coll, user_id) :
        /\ o.user_id = user_id
        /\ o.chat_id = chat_id}

MarkMatches(coll, user_id, chat_id, message_ids) ==
    {o \in with_tenant(coll, user_id) :
        /\ o.user_id = user_id
        /\ o.chat_id = chat_id
        /\ o.memory_type = TYPE_MESSAGE
        /\ o.message_id \in message_ids}

\* data.update(uuid=obj.uuid, properties={"is_summarized": True}) for uuids
UpdateSummarized(coll, user_id, uuids) ==
    [coll EXCEPT ![user_id] =
        {IF o.uuid \in uuids THEN [o EXCEPT !.is_summarized = "true"] ELSE o
           : o \in @}]

(***************************************************************************)
(* BookAnnotationStore                                                     *)
(***************************************************************************)
\* where_filter of search_highlights, inside the tenant
HighlightMatches(coll, user_id, book_id) ==
    {o \in with_tenant(coll, user_id) : o.book_id = book_id}

\* fetch_objects(filters=annotation_id == key) of update_annotation
AnnotationMatches(coll, user_id, annotation_id) ==
    {o \in with_tenant(coll, user_id) : o.annotation_id = annotation_id}

AnnotationMetadata(annotation_id, book_id, user_id, text) ==
    [uuid |-> 0, annotation_id |-> annotation_id, book_id |-> book_id,
     user_id |-> user_id, content |-> text]

(***************************************************************************)
(* Direct calls of the store API (any tenant, any filter)                  *)
(***************************************************************************)
NoSearch == [kind |-> "none", user_id |-> "u1", key |-> "c1", results |-> {}]

\* what a caller of the annotation store observes of its call: the records the
\* filter matched when the call was made, how the call ended, whether the
\* collection differs afterwards, and whether the call repeats the one before
NoCall ==
    [op |-> "none", user_id |-> "u1", key |-> "a1", matched |-> 0,
     outcome |-> "ok", changed |-> FALSE, repeated |-> FALSE]

\* a run that does not observe the calls keeps lastCall at Unobserved
Unobserved == [NoCall EXCEPT !.op = "unobserved"]

CallRecord(op, user_id, key, matched, outcome, after) ==
    IF lastCall = Unobserved THEN Unobserved ELSE
    [op |-> op, user_id |-> user_id, key |-> key, matched |-> matched,
     outcome |-> outcome, changed |-> after # annotations,
     repeated |-> /\ lastCall.op = op
                  /\ lastCall.user_id = user_id
                  /\ lastCall.key = key]

\* data.delete_many(where=...): every object the filter matches is removed
DeleteMany_first(objs, matches) ==
    IF matches = {} THEN objs ELSE objs \ {CHOOSE o \in matches : TRUE}

DeleteMany(objs, matches) == objs \ matches

\* the collection after delete_annotation(user_id, annotation_id)
AfterDeleteAnnotation(coll, user_id, annotation_id) ==
    [coll EXCEPT ![user_id] =
        DeleteMany(@, AnnotationMatches(coll, user_id, annotation_id))]

\* the collection after delete_book_annotations(user_id, book_id)
AfterDeleteBookAnnotations(coll, user_id, book_id) ==
    [coll EXCEPT ![user_id] =
        DeleteMany(@, HighlightMatches(coll, user_id, book_id))]

\* update_annotation, `else` branch: logger.warning(...) and nothing else
UpdateWhenNotFound_upsert(coll, user_id, properties) ==
    DataInsert(coll, user_id, properties, nextUuid)

UpdateWhenNotFound(coll, user_id, properties) == coll

\* update_annotation ends by returning None on both branches
UpdateOutcome(found) == IF found # {} THEN "updated" ELSE "not_found"

OnlyStoreChanges ==
    UNCHANGED <<nullMatchesFalse, messages, hs, passes, faultsLeft, now, retry,
                collections, ensure, prompt, baseStore>>

\* ChatMemoryStore.add_memory(vector, metadata, user_id)
AddMemory(user_id, chat_id, memory_type, message_id) ==
    /\ nextUuid <= MaxObjects
    /\ LET message == [id |-> message_id, chat_id |-> chat_id,
                       created_at |-> 0, sender_type |-> "user",
                       sender_id |-> user_id]
           metadata == IF memory_type = TYPE_MESSAGE
                         THEN MessageMetadata(message)
                         ELSE SummaryMetadata(<<message_id>>, chat_id, user_id, 0)
       IN  chatMemory' = DataInsert(chatMemory, user_id, metadata, nextUuid)
    /\ nextUuid' = nextUuid + 1
    /\ lastSearch' = NoSearch
    /\ UNCHANGED lastCall
    /\ UNCHANGED annotations
    /\ OnlyStoreChanges

\* ChatMemoryStore.mark_messages_as_summarized(user_id, chat_id, message_ids)
MarkMessagesAsSummarized(user_id, chat_id, message_ids) ==
    /\ message_ids # {}
    /\ \E objs \in LimitChoices(
              MarkMatches(chatMemory, user_id, chat_id, message_ids),
              Cardinality(message_ids) + 10) :
          chatMemory' = UpdateSummarized(chatMemory, user_id,
                                         {o.uuid : o \in objs})
    /\ lastSearch' = NoSearch
    /\ UNCHANGED lastCall
    /\ UNCHANGED <<annotations, nextUuid>>
    /\ OnlyStoreChanges

\* ChatMemoryStore.search_chat_memories(user_id, chat_id, query_vector, limit=5)
SearchChatMemories(user_id, chat_id, limit) ==
    /\ \E objs \in LimitChoices(ChatMemoryMatches(chatMemory, user_id, chat_id),
                                limit) :
          lastSearch' = [kind |-> "chat", user_id |-> user_id,
                         key |-> chat_id, results |-> objs]
    /\ UNCHANGED <<chatMemory, annotations, nextUuid, lastCall>>
    /\ OnlyStoreChanges

\* BookAnnotationStore.add_annotation(vector, metadata, user_id)
AddAnnotation(user_id, annotation_id, book_id, text) ==
    /\ nextUuid <= MaxObjects
    /\ annotations' = DataInsert(annotations, user_id,
           AnnotationMetadata(annotation_id, book_id, user_id, text), nextUuid)
    /\ nextUuid' = nextUuid + 1
    /\ lastSearch' = NoSearch
    /\ lastCall' = CallRecord("add_annotation", user_id, annotation_id, 0, "ok",
                              annotations')
    /\ UNCHANGED chatMemory
    /\ OnlyStoreChanges

\* BookAnnotationStore.search_highlights(user_id, book_id, query_vector, limit=3)
SearchHighlights(user_id, book_id, limit) ==
    /\ \E objs \in LimitChoices(HighlightMatches(annotations, user_id, book_id),
                                limit) :
          lastSearch' = [kind |-> "highlights", user_id |-> user_id,
                         key |-> book_id, results |-> objs]
    /\ UNCHANGED <<chatMemory, annotations, nextUuid, lastCall>>
    /\ OnlyStoreChanges

\* BookAnnotationStore.update_annotation(user_id, annotation_id, properties, vector)
UpdateAnnotation(user_id, annotation_id, book_id, text) ==
    /\ LET found == AnnotationMatches(annotations, user_id, annotation_id)
           properties == AnnotationMetadata(annotation_id, book_id, user_id, text)
       IN  /\ IF found # {}
                THEN \E first \in found :    \* response.objects[0]
                       annotations' = [annotations EXCEPT ![user_id] =
                           (@ \ {first}) \cup
                           {[properties EXCEPT !.uuid = first.uuid]}]
                ELSE annotations' =
                        UpdateWhenNotFound(annotations, user_id, properties)
           /\ lastCall' = CallRecord("update_annotation", user_id, annotation_id,
                                     Cardinality(found), UpdateOutcome(found),
                                     annotations')
    /\ lastSearch' = NoSearch
    /\ UNCHANGED <<chatMemory, nextUuid>>
    /\ OnlyStoreChanges

\* BookAnnotationStore.delete_annotation(user_id, annotation_id)
DeleteAnnotation(user_id, annotation_id) ==
    /\ annotations' = AfterDeleteAnnotation(annotations, user_id, annotation_id)
    /\ lastCall' = CallRecord("delete_annotation", user_id, annotation_id,
           Cardinality(AnnotationMatches(annotations, user_id, annotation_id)),
           "ok", annotations')
    /\ lastSearch' = NoSearch
    /\ UNCHANGED <<chatMemory, nextUuid>>
    /\ OnlyStoreChanges

\* BookAnnotationStore.delete_book_annotations(user_id, book_id)
DeleteBookAnnotations(user_id, book_id) ==
    /\ annotations' = AfterDeleteBookAnnotations(annotations, user_id, book_id)
    /\ lastCall' = CallRecord("delete_book_annotations", user_id, book_id,
           Cardinality(HighlightMatches(annotations, user_id, book_id)),
           "ok", annotations')
    /\ lastSearch' = NoSearch
    /\ UNCHANGED <<chatMemory, nextUuid>>
    /\ OnlyStoreChanges

(***************************************************************************)
(* SummarizationService                                                    *)
(***************************************************************************)
HandlerIdle ==
    [pc |-> "idle", user_id |-> "u1", chat_id |-> "c1", message_count |-> 0,
     batch |-> <<>>, summary |-> <<>>, retries |-> 0, llm_called |-> FALSE,
     inserted |-> FALSE, marked |-> {}, outcome |-> "none", raised |-> FALSE,
     history |-> <<>>, chunks |-> 0, count_at_save |-> 0]

\* `except Exception as e: logger.error(...)` of the pass: nothing escapes
ExceptionEscapesPass_reraise == TRUE

ExceptionEscapesPass == FALSE

\* summarize_chat: message_count > 0 and message_count % threshold == 0
StartsPass_no_positive_test(message_count) ==
    message_count % memory_summarize_threshold = 0

StartsPass(message_count) ==
    message_count > 0 /\ message_count % memory_summarize_threshold = 0

\* len(unsummarized_messages) < self.memory_summarize_threshold // 2
TooFewToSummarize_quarter(batch) ==
    Len(batch) < memory_summarize_threshold \div 4

TooFewToSummarize(batch) == Len(batch) < memory_summarize_threshold \div 2

\* list.sort / sorted by created_at: stable insertion by key
RECURSIVE SortedByCreatedAt(_)
SortedByCreatedAt(seq) ==
    IF seq = <<>> THEN <<>>
    ELSE LET rest == SortedByCreatedAt(SubSeq(seq, 1, Len(seq) - 1))
             last == seq[Len(seq)]
             k == Cardinality({i \in 1..Len(rest) :
                                  rest[i].created_at <= last.created_at})
         IN  SubSeq(rest, 1, k) \o <<last>> \o SubSeq(rest, k + 1, Len(rest))

\* sort=Sorting().by_property("created_at", ascending=True); ties in store order
RECURSIVE SortAscending(_)
SortAscending(S) ==
    IF S = {} THEN <<>>
    ELSE LET first == CHOOSE x \in S : \A y \in S :
                         \/ x.created_at < y.created_at
                         \/ (x.created_at = y.created_at /\ x.uuid <= y.uuid)
         IN  <<first>> \o SortAscending(S \ {first})

\* ChatMemoryStore.get_unsummarized_messages(user_id, chat_id, max_count)
get_unsummarized_messages_newest(coll, user_id, chat_id, max_count) ==
    LET sorted == SortAscending(UnsummarizedMatches(coll, user_id, chat_id))
        items == [i \in 1..Len(sorted) |->
                    [id |-> sorted[i].uuid,
                     content |-> sorted[i].content,
                     message_id |-> sorted[i].message_id,
                     sender |-> sorted[i].sender,
                     created_at |-> sorted[i].created_at]]
    IN  SubSeq(items, Len(items) - Min(max_count, Len(items)) + 1, Len(items))

get_unsummarized_messages(coll, user_id, chat_id, max_count) ==
    LET sorted == SortAscending(UnsummarizedMatches(coll, user_id, chat_id))
        items == [i \in 1..Len(sorted) |->
                    [id |-> sorted[i].uuid,
                     content |-> sorted[i].content,
                     message_id |-> sorted[i].message_id,
                     sender |-> sorted[i].sender,
                     created_at |-> sorted[i].created_at]]
    IN  SubSeq(items, 1, Min(max_count, Len(items)))

\* message_ids collected from the batch (`if message_id:` keeps non-empty ids)
MessageIdsOf(batch) == {batch[i].message_id : i \in 1..Len(batch)}

\* the text the model is asked to fold: the contents in batch order
RECURSIVE CombinedText(_)
CombinedText(batch) ==
    IF batch = <<>> THEN <<>>
    ELSE Head(batch).content \o CombinedText(Tail(batch))

\* first k objects of a fetch result, in store order
FirstObjects(objs, k) ==
    {o \in objs : Cardinality({p \in objs : p.uuid < o.uuid}) < k}

\* the caller of summarize_chat enters it with message_count
EnterSummarizeChat(h, user_id, chat_id, message_count) ==
    /\ hs' = [hs EXCEPT ![h] =
          [HandlerIdle EXCEPT
              !.user_id = user_id, !.chat_id = chat_id,
              !.message_count = message_count,
              !.count_at_save = hs[h].count_at_save,
              !.pc = IF StartsPass(message_count) THEN "fetch" ELSE "summarized",
              !.outcome = IF StartsPass(message_count)
                            THEN "running" ELSE "skipped"]]
    /\ passes' = [passes EXCEPT ![chat_id] =
          IF StartsPass(message_count) THEN @ + 1 ELSE @]

\* a wrapped store call of the pass raises: retry, or give up and let the
\* pass's except clause take the error
WrappedCallFails(h, max_retries) ==
    /\ faultsLeft > 0
    /\ faultsLeft' = faultsLeft - 1
    /\ hs' = [hs EXCEPT ![h] =
          IF RetryExhausted(@.retries, max_retries)
            THEN [@ EXCEPT !.retries = 0, !.pc = "summarized",
                           !.outcome = "error",
                           !.raised = ExceptionEscapesPass]
            ELSE [@ EXCEPT !.retries = @ + 1]]

\* SummarizationService.summarize_chat(chat_id, user_id, message_count)
SummarizeChat(h, chat_id, user_id, message_count) ==
    /\ hs[h].pc = "idle"
    /\ StartsPass(message_count) =>
          passes["c1"] + passes["c2"] < MaxPasses
    /\ EnterSummarizeChat(h, user_id, chat_id, message_count)
    /\ UNCHANGED <<chatMemory, annotations, nextUuid, nullMatchesFalse,
                   messages, faultsLeft, lastSearch, now, retry,
                   lastCall, collections, ensure, prompt, baseStore>>

\* get_unsummarized_messages returns; the pass aborts on a short backlog
FetchUnsummarized(h) ==
    /\ hs[h].pc = "fetch"
    /\ LET batch == get_unsummarized_messages(chatMemory, hs[h].user_id,
                        hs[h].chat_id, memory_summarize_threshold)
       IN  hs' = [hs EXCEPT ![h] =
              IF TooFewToSummarize(batch)
                THEN [@ EXCEPT !.batch = batch, !.retries = 0,
                               !.pc = "summarized", !.outcome = "abort"]
                ELSE [@ EXCEPT !.batch = SortedByCreatedAt(batch),
                               !.retries = 0, !.pc = "llm"]]
    /\ UNCHANGED <<chatMemory, annotations, nextUuid, nullMatchesFalse,
                   messages, passes, faultsLeft, lastSearch, now, retry,
                   lastCall, collections, ensure, prompt, baseStore>>

FetchUnsummarizedFails(h) ==
    /\ hs[h].pc = "fetch"
    /\ WrappedCallFails(h, GetUnsummarizedMaxRetries)
    /\ UNCHANGED <<chatMemory, annotations, nextUuid, nullMatchesFalse,
                   messages, passes, lastSearch, now, retry,
                   lastCall, collections, ensure, prompt, baseStore>>

\* a summary was produced: _save_summary_to_vector_store comes next, the
\* marking only after it
NextStepAfterSummary_mark_first == "mark"

NextStepAfterSummary == "encode"

\* `if not summary: return`
NextStepWithoutSummary_no_test == "encode"

NextStepWithoutSummary == "summarized"

\* _get_llm_summary returns a non-empty text
LlmSummary(h) ==
    /\ hs[h].pc = "llm"
    /\ hs' = [hs EXCEPT ![h] =
          [@ EXCEPT !.llm_called = TRUE, !.summary = CombinedText(hs[h].batch),
                    !.pc = NextStepAfterSummary]]
    /\ UNCHANGED <<chatMemory, annotations, nextUuid, nullMatchesFalse,
                   messages, passes, faultsLeft, lastSearch, now, retry,
                   lastCall, collections, ensure, prompt, baseStore>>

\* _get_llm_summary catches the model's error and returns None, or the model
\* returns an empty text: `if not summary: return`
LlmNoSummary(h) ==
    /\ hs[h].pc = "llm"
    /\ faultsLeft > 0
    /\ faultsLeft' = faultsLeft - 1
    /\ hs' = [hs EXCEPT ![h] =
          [@ EXCEPT !.llm_called = TRUE, !.summary = <<>>,
                    !.pc = NextStepWithoutSummary, !.outcome = "no_summary"]]
    /\ UNCHANGED <<chatMemory, annotations, nextUuid, nullMatchesFalse,
                   messages, passes, lastSearch, now, retry,
                   lastCall, collections, ensure, prompt, baseStore>>

\* _save_summary_to_vector_store: encode_text(summary)
EncodeSummary(h) ==
    /\ hs[h].pc = "encode"
    /\ hs' = [hs EXCEPT ![h] = [@ EXCEPT !.retries = 0, !.pc = "add"]]
    /\ UNCHANGED <<chatMemory, annotations, nextUuid, nullMatchesFalse,
                   messages, passes, faultsLeft, lastSearch, now, retry,
                   lastCall, collections, ensure, prompt, baseStore>>

EncodeSummaryFails(h) ==
    /\ hs[h].pc = "encode"
    /\ WrappedCallFails(h, EncodeTextMaxRetries)
    /\ UNCHANGED <<chatMemory, annotations, nextUuid, nullMatchesFalse,
                   messages, passes, lastSearch, now, retry,
                   lastCall, collections, ensure, prompt, baseStore>>

\* _save_summary_to_vector_store: add_memory(vector, metadata, user_id)
SaveSummary(h) ==
    /\ hs[h].pc = "add"
    /\ chatMemory' = DataInsert(chatMemory, hs[h].user_id,
           SummaryMetadata(hs[h].summary, hs[h].chat_id, hs[h].user_id, now),
           nextUuid)
    /\ nextUuid' = nextUuid + 1
    /\ hs' = [hs EXCEPT ![h] =
          IF MessageIdsOf(@.batch) # {}
            THEN [@ EXCEPT !.inserted = TRUE, !.retries = 0, !.pc = "mark"]
            ELSE [@ EXCEPT !.inserted = TRUE, !.retries = 0,
                           !.pc = "summarized", !.outcome = "done"]]
    /\ UNCHANGED <<annotations, nullMatchesFalse, messages, passes, faultsLeft,
                   lastSearch, now, retry,
                   lastCall, collections, ensure, prompt, baseStore>>

SaveSummaryFails(h) ==
    /\ hs[h].pc = "add"
    /\ WrappedCallFails(h, AddMemoryMaxRetries)
    /\ UNCHANGED <<chatMemory, annotations, nextUuid, nullMatchesFalse,
                   messages, passes, lastSearch, now, retry,
                   lastCall, collections, ensure, prompt, baseStore>>

\* mark_messages_as_summarized: the fetch and every update succeed
MarkBatch(h) ==
    /\ hs[h].pc = "mark"
    /\ \E objs \in LimitChoices(
              MarkMatches(chatMemory, hs[h].user_id, hs[h].chat_id,
                          MessageIdsOf(hs[h].batch)),
              Cardinality(MessageIdsOf(hs[h].batch)) + 10) :
          /\ chatMemory' = UpdateSummarized(chatMemory, hs[h].user_id,
                                            {o.uuid : o \in objs})
          /\ hs' = [hs EXCEPT ![h] =
                [@ EXCEPT !.marked = @ \cup {o.message_id : o \in objs},
                          !.retries = 0, !.pc = "summarized",
                          !.outcome = "done"]]
    /\ UNCHANGED <<annotations, nextUuid, nullMatchesFalse, messages, passes,
                   faultsLeft, lastSearch, now, retry,
                   lastCall, collections, ensure, prompt, baseStore>>

\* mark_messages_as_summarized: the fetch or the (k+1)-th update raises after
\* k objects were updated one by one
MarkBatchFails(h, k) ==
    /\ hs[h].pc = "mark"
    /\ \E objs \in LimitChoices(
              MarkMatches(chatMemory, hs[h].user_id, hs[h].chat_id,
                          MessageIdsOf(hs[h].batch)),
              Cardinality(MessageIdsOf(hs[h].batch)) + 10) :
          /\ k = 0 \/ k < Cardinality(objs)
          /\ chatMemory' = UpdateSummarized(chatMemory, hs[h].user_id,
                               {o.uuid : o \in FirstObjects(objs, k)})
          /\ faultsLeft > 0
          /\ faultsLeft' = faultsLeft - 1
          /\ hs' = [hs EXCEPT ![h] =
                IF RetryExhausted(@.retries, MarkMaxRetries)
                  THEN [@ EXCEPT
                          !.marked = @ \cup
                              {o.message_id : o \in FirstObjects(objs, k)},
                          !.retries = 0, !.pc = "summarized",
                          !.outcome = "error",
                          !.raised = ExceptionEscapesPass]
                  ELSE [@ EXCEPT
                          !.marked = @ \cup
                              {o.message_id : o \in FirstObjects(objs, k)},
                          !.retries = @ + 1]]
    /\ UNCHANGED <<annotations, nextUuid, nullMatchesFalse, messages, passes,
                   lastSearch, now, retry,
                   lastCall, collections, ensure, prompt, baseStore>>

\* summarize_chat has returned to a caller that does nothing else
ReturnToCaller(h) ==
    /\ hs[h].pc = "summarized"
    /\ hs' = [hs EXCEPT ![h] = HandlerIdle]
    /\ UNCHANGED <<chatMemory, annotations, nextUuid, nullMatchesFalse,
                   messages, passes, faultsLeft, lastSearch, now, retry,
                   lastCall, collections, ensure, prompt, baseStore>>

(***************************************************************************)
(* Relational message table                                                *)
(***************************************************************************)
\* Message.create(...): id from the table position, created_at from the clock
NewMessage(id, chat_id, sender_id, sender_type, created_at) ==
    [id |-> id, chat_id |-> chat_id, sender_id |-> sender_id,
     sender_type |-> sender_type, created_at |-> created_at,
     deleted |-> FALSE]

\* MessageRepositoryImpl.count_by_chat_id: rows of the chat not soft-deleted
count_by_chat_id(table, chat_id) ==
    Cardinality({i \in 1..Len(table) :
                    table[i].chat_id = chat_id /\ ~table[i].deleted})

\* get_latest_messages: limit=5
LatestLimit == 5

\* order_by(created_at.desc()); ids break ties
RECURSIVE SortRowsDescending(_)
SortRowsDescending(S) ==
    IF S = {} THEN <<>>
    ELSE LET first == CHOOSE x \in S : \A y \in S :
                         \/ x.created_at > y.created_at
                         \/ (x.created_at = y.created_at /\ x.id >= y.id)
         IN  <<first>> \o SortRowsDescending(S \ {first})

\* MessageRepositoryImpl.find_latest_by_chat_id: the newest `limit` rows of the
\* chat that are not soft-deleted, newest first
find_latest_by_chat_id(table, chat_id, limit) ==
    LET rows == {table[i] : i \in {j \in 1..Len(table) :
                     table[j].chat_id = chat_id /\ ~table[j].deleted}}
        newest_first == SortRowsDescending(rows)
    IN  SubSeq(newest_first, 1, Min(limit, Len(newest_first)))

\* MessageProcessor.get_latest_messages
get_latest_messages(table, chat_id) ==
    SortedByCreatedAt(find_latest_by_chat_id(table, chat_id, LatestLimit))

\* reversed(buffer)
Reverse(seq) == [i \in 1..Len(seq) |-> seq[Len(seq) + 1 - i]]

\* history_items of _create_memory_prompt: one line per message of
\* reversed(buffer) that is not deleted, in that order
HistoryItems(buffer) ==
    SelectSeq(Reverse(buffer), LAMBDA msg : ~msg.deleted)

(***************************************************************************)
(* BaseVectorStore: shared client and embedding model                      *)
(***************************************************************************)
\* request threads that construct store objects
Threads == {"r1", "r2"}

\* None of _shared_client / _shared_embedding_model; instances are 1, 2, ...
None == 0

ConstructorIdle ==
    [pc |-> "idle", client |-> None, embedding_model |-> None, built |-> 0]

\* class attributes, instances created so far, the objects constructed
\* (the client and model each holds) and every constructor's position
NoBaseStore ==
    [shared_client |-> None, shared_embedding_model |-> None,
     clients_created |-> 0, models_created |-> 0, objects |-> {},
     returned |-> {},
     th |-> [t \in Threads |-> ConstructorIdle]]

BaseStoreOthersUnchanged ==
    UNCHANGED <<chatMemory, annotations, nextUuid, nullMatchesFalse, messages,
                hs, passes, lastSearch, now, retry, lastCall, collections,
                ensure, prompt>>

\* BaseVectorStore() called, directly or by a subclass constructor
Construct(t) ==
    /\ baseStore.th[t].pc = "idle"
    /\ baseStore.th[t].built < MaxConstructions
    /\ baseStore' = [baseStore EXCEPT !.th[t].pc = "check_client",
                                      !.th[t].client = None,
                                      !.th[t].embedding_model = None]
    /\ UNCHANGED faultsLeft
    /\ BaseStoreOthersUnchanged

\* get_client: `if cls._shared_client is None: cls()`, then the class
\* attribute is returned
GetClient(t) ==
    /\ baseStore.th[t].pc = "idle"
    /\ baseStore.th[t].built < MaxConstructions
    /\ baseStore' =
          IF baseStore.shared_client = None
            THEN [baseStore EXCEPT !.th[t].pc = "check_client",
                                   !.th[t].client = None,
                                   !.th[t].embedding_model = None]
            ELSE [baseStore EXCEPT
                     !.returned = @ \cup {baseStore.shared_client}]
    /\ UNCHANGED faultsLeft
    /\ BaseStoreOthersUnchanged

\* line 42: if BaseVectorStore._shared_client is None
CheckClient(t) ==
    /\ baseStore.th[t].pc = "check_client"
    /\ baseStore' = [baseStore EXCEPT !.th[t].pc =
          IF baseStore.shared_client = None
            THEN "create_client" ELSE "assign_client"]
    /\ UNCHANGED faultsLeft
    /\ BaseStoreOthersUnchanged

\* line 43: _create_client() connects and the class attribute is set
CreateClient(t) ==
    /\ baseStore.th[t].pc = "create_client"
    /\ baseStore' = [baseStore EXCEPT
          !.clients_created = @ + 1,
          !.shared_client = baseStore.clients_created + 1,
          !.th[t].pc = "assign_client"]
    /\ UNCHANGED faultsLeft
    /\ BaseStoreOthersUnchanged

\* line 43: _create_client() raises after its retries; the constructor raises
\* and no object is made
CreateClientFails(t) ==
    /\ baseStore.th[t].pc = "create_client"
    /\ faultsLeft > 0
    /\ faultsLeft' = faultsLeft - 1
    /\ baseStore' = [baseStore EXCEPT !.th[t].pc = "idle"]
    /\ BaseStoreOthersUnchanged

\* line 45: self.client = BaseVectorStore._shared_client
AssignClient(t) ==
    /\ baseStore.th[t].pc = "assign_client"
    /\ baseStore' = [baseStore EXCEPT
          !.th[t].client = baseStore.shared_client,
          !.th[t].pc = "check_model"]
    /\ UNCHANGED faultsLeft
    /\ BaseStoreOthersUnchanged

\* line 48: if BaseVectorStore._shared_embedding_model is None
CheckModel(t) ==
    /\ baseStore.th[t].pc = "check_model"
    /\ baseStore' = [baseStore EXCEPT !.th[t].pc =
          IF baseStore.shared_embedding_model = None
            THEN "create_model" ELSE "assign_model"]
    /\ UNCHANGED faultsLeft
    /\ BaseStoreOthersUnchanged

\* line 49-74: the embedding model of the configured provider is built and
\* the class attribute is set
CreateModel(t) ==
    /\ baseStore.th[t].pc = "create_model"
    /\ baseStore' = [baseStore EXCEPT
          !.models_created = @ + 1,
          !.shared_embedding_model = baseStore.models_created + 1,
          !.th[t].pc = "assign_model"]
    /\ UNCHANGED faultsLeft
    /\ BaseStoreOthersUnchanged

\* line 76: self.embedding_model = BaseVectorStore._shared_embedding_model;
\* the constructor returns the object
AssignModel(t) ==
    /\ baseStore.th[t].pc = "assign_model"
    /\ baseStore' = [baseStore EXCEPT
          !.objects = @ \cup
              {[client |-> baseStore.th[t].client,
                embedding_model |-> baseStore.shared_embedding_model]},
          !.th[t] = [ConstructorIdle EXCEPT
                        !.built = baseStore.th[t].built + 1]]
    /\ UNCHANGED faultsLeft
    /\ BaseStoreOthersUnchanged

(***************************************************************************)
(* CollectionManager                                                       *)
(***************************************************************************)
CollectionNames == <<"ChatMemory", "BookContent", "BookAnnotation">>

Callers == {"m1", "m2"}

AllCollections ==
    [n \in Range(CollectionNames) |->
        [exists |-> TRUE, multi_tenancy |-> TRUE, creations |-> 0]]

\* @retry_on_error(max_retries=3, initial_delay=1) of _ensure_collections
EnsureMaxRetries_as_mark == MarkMaxRetries

EnsureMaxRetries == 3

\* Configure.multi_tenancy(enabled=True, ...) of the three create calls
MultiTenancyEnabled == TRUE

NoCollections ==
    [n \in Range(CollectionNames) |->
        [exists |-> FALSE, multi_tenancy |-> FALSE, creations |-> 0]]

\* `before` is the store as the call found it, `created` what the call created
EnsureIdle ==
    [pc |-> "idle", idx |-> 1, retries |-> 0, calls |-> 0,
     before |-> NoCollections, created |-> {}]

\* `if not self.client.collections.exists(NAME):`
CreateNeeded_always(exists) == TRUE

CreateNeeded(exists) == ~exists

\* after one _create_*_collection(): the next one, or the end of the try block
AfterCollection(e) ==
    IF e.idx < Len(CollectionNames)
      THEN [e EXCEPT !.idx = @ + 1, !.pc = "exists"]
      ELSE [e EXCEPT !.pc = "returned"]

EnsureOthersUnchanged ==
    UNCHANGED <<chatMemory, annotations, nextUuid, nullMatchesFalse, messages,
                hs, passes, faultsLeft, lastSearch, now, retry, lastCall, prompt,
                baseStore>>

\* a call of _ensure_collections() enters the wrapper: retries = 0
EnsureCollections(c) ==
    /\ ensure[c].pc \in {"idle", "returned"}
    /\ ensure[c].calls < MaxEnsureCalls
    /\ ensure' = [ensure EXCEPT ![c] =
           [pc |-> "exists", idx |-> 1, retries |-> 0, calls |-> @.calls + 1,
            before |-> collections, created |-> {}]]
    /\ UNCHANGED collections
    /\ EnsureOthersUnchanged

\* client.collections.exists(NAME) of the current _create_*_collection()
CollectionExists(c) ==
    /\ ensure[c].pc = "exists"
    /\ LET name == CollectionNames[ensure[c].idx]
       IN  ensure' = [ensure EXCEPT ![c] =
               IF CreateNeeded(collections[name].exists)
                 THEN [@ EXCEPT !.pc = "create"]
                 ELSE AfterCollection(@)]
    /\ UNCHANGED collections
    /\ EnsureOthersUnchanged

\* client.collections.create(name=NAME, multi_tenancy_config=...): the store
\* refuses a name it already holds, and the error leaves the try block
CollectionsCreate(c) ==
    /\ ensure[c].pc = "create"
    /\ LET name == CollectionNames[ensure[c].idx]
       IN  IF collections[name].exists
             THEN /\ ensure' = [ensure EXCEPT ![c] =
                        [@ EXCEPT !.retries = @ + 1,
                                  !.pc = IF RetryExhausted(ensure[c].retries,
                                                           EnsureMaxRetries)
                                           THEN "raised" ELSE "sleep"]]
                  /\ UNCHANGED collections
             ELSE /\ collections' = [collections EXCEPT ![name] =
                        [exists |-> TRUE, multi_tenancy |-> MultiTenancyEnabled,
                         creations |-> @.creations + 1]]
                  /\ ensure' = [ensure EXCEPT ![c] =
                        AfterCollection([@ EXCEPT !.created = @ \cup {name}])]
    /\ EnsureOthersUnchanged

\* time.sleep(delay), then the wrapper calls _ensure_collections() again
EnsureSleep(c) ==
    /\ ensure[c].pc = "sleep"
    /\ ensure' = [ensure EXCEPT ![c] = [@ EXCEPT !.pc = "exists", !.idx = 1]]
    /\ UNCHANGED collections
    /\ EnsureOthersUnchanged

(***************************************************************************)
(* PromptBuilderService                                                    *)
(***************************************************************************)
\* A text is a sequence of pieces; a piece is the characters from..to of a
\* named source string, so that slicing and concatenation are exact.
Piece(src, from, to) == [src |-> src, from |-> from, to |-> to]

Literal(src, len) == <<Piece(src, 1, len)>>

RECURSIVE TextLen(_)
TextLen(t) ==
    IF t = <<>> THEN 0 ELSE (Head(t).to - Head(t).from + 1) + TextLen(Tail(t))

\* text[:k]
RECURSIVE TakeChars(_, _)
TakeChars(t, k) ==
    IF t = <<>> \/ k <= 0 THEN <<>>
    ELSE LET n == Head(t).to - Head(t).from + 1
         IN  IF n <= k
               THEN <<Head(t)>> \o TakeChars(Tail(t), k - n)
               ELSE <<[Head(t) EXCEPT !.to = Head(t).from + k - 1]>>

\* sep.join(parts)
RECURSIVE Join(_, _)
Join(parts, sep) ==
    IF parts = <<>> THEN <<>>
    ELSE IF Len(parts) = 1 THEN parts[1]
    ELSE parts[1] \o sep \o Join(Tail(parts), sep)

Max(a, b) == IF a >= b THEN a ELSE b

NL == Literal("nl", 1)              \* "\n"
Ellipsis == Literal("...", 3)       \* "..."

\* _create_memory_prompt: system_prompt, 213 characters
system_prompt == Literal("system_prompt", 213)

\* "\n--- Related Past Conversations ---\n", 36 characters
memory_header == Literal("memory_header", 36)

\* "\n--- Recent Chat History (Oldest First) ---\n", 44 characters
history_header == Literal("history_header", 44)

\* header + "\n".join(memory_items)
MemoryPart(items_len) == memory_header \o Literal("memory_items", items_len)

\* header + "\n".join(history_items)
HistoryPart(items_len) == history_header \o Literal("history_items", items_len)

\* f"\nUser: {user_query}\nAI:"
QueryPart(query_len) ==
    Literal("user_label", 7) \o Literal("user_query", query_len)
        \o Literal("ai_label", 4)

\* _apply_token_limit: max_tokens
max_tokens == 8192

\* _truncate_text_to_tokens: char_per_token
char_per_token == 4

\* _estimate_tokens when TIKTOKEN_ENCODING is None: len(text) // 4
estimate_tokens(text) == TextLen(text) \div 4

\* _truncate_text_to_tokens when TIKTOKEN_ENCODING is None
truncate_text_to_tokens(text, limit) ==
    LET max_chars == limit * char_per_token
    IN  IF TextLen(text) <= max_chars
          THEN text
          ELSE TakeChars(text, max_chars) \o Ellipsis

\* `if estimated_tokens > max_tokens:`
OverBudget_inclusive(estimated_tokens) == estimated_tokens >= max_tokens

OverBudget(estimated_tokens) == estimated_tokens > max_tokens

\* prompt_parts[0] + "\n" + "\n".join(truncated) + prompt_parts[-1]
LimitedPrompt_no_suffix(prompt_parts, truncated) ==
    prompt_parts[1] \o NL \o Join(truncated, NL)

LimitedPrompt(prompt_parts, truncated) ==
    prompt_parts[1] \o NL \o Join(truncated, NL)
        \o prompt_parts[Len(prompt_parts)]

apply_token_limit(full_prompt, prompt_parts) ==
    LET estimated_tokens == estimate_tokens(full_prompt)
        required == prompt_parts[1] \o prompt_parts[Len(prompt_parts)]
        remain_tokens == max_tokens - estimate_tokens(required)
        middle_parts == SubSeq(prompt_parts, 2, Len(prompt_parts) - 1)
        per_part == Max(remain_tokens \div Len(middle_parts), 1)
        truncated == [i \in 1..Len(middle_parts) |->
                         truncate_text_to_tokens(middle_parts[i], per_part)]
    IN  IF OverBudget(estimated_tokens) /\ middle_parts # <<>>
          THEN LimitedPrompt(prompt_parts, truncated)
          ELSE full_prompt

\* prompt_parts of _create_memory_prompt: a block is added only when its
\* list is not empty
PromptParts(memory_units, history_units, query_len) ==
    <<system_prompt>>
      \o (IF memory_units > 0
            THEN <<MemoryPart(memory_units * BlockUnit)>> ELSE <<>>)
      \o (IF history_units > 0
            THEN <<HistoryPart(history_units * BlockUnit)>> ELSE <<>>)
      \o <<QueryPart(query_len)>>

\* search_relevant_memories, `except Exception`: log and return []
RetrievalFailureRaises_propagate == TRUE

RetrievalFailureRaises == FALSE

\* stored: units of memory text the store holds for the query; history: units
\* of text in the buffer; chat_memories: units of memory text retrieved
PromptIdle ==
    [pc |-> "idle", stored |-> 0, history |-> 0, query_len |-> 5,
     failed |-> "none", chat_memories |-> 0, prompt_parts |-> <<>>,
     full_prompt |-> <<>>, result |-> <<>>]

BuildMemoryPromptCalled(stored, history, query_len) ==
    [PromptIdle EXCEPT !.pc = "search", !.stored = stored,
                       !.history = history, !.query_len = query_len]

PromptOthersUnchanged ==
    UNCHANGED <<chatMemory, annotations, nextUuid, nullMatchesFalse, messages,
                hs, passes, faultsLeft, lastSearch, now, retry, lastCall,
                collections, ensure, baseStore>>

\* search_relevant_memories: encode_text and search_chat_memories succeed
SearchRelevantMemories ==
    /\ prompt.pc = "search"
    /\ prompt' = [prompt EXCEPT !.pc = "create",
                                !.chat_memories = prompt.stored]
    /\ PromptOthersUnchanged

\* search_relevant_memories: encode_text or search_chat_memories raises after
\* its own retries
SearchRelevantMemoriesFails(stage) ==
    /\ prompt.pc = "search"
    /\ prompt' = [prompt EXCEPT
           !.pc = IF RetrievalFailureRaises THEN "raised" ELSE "create",
           !.failed = stage,
           !.chat_memories = 0]
    /\ PromptOthersUnchanged

\* _create_memory_prompt, ending with _apply_token_limit
CreateMemoryPrompt ==
    /\ prompt.pc = "create"
    /\ LET prompt_parts == PromptParts(prompt.chat_memories, prompt.history,
                                       prompt.query_len)
           full_prompt == Join(prompt_parts, NL)
       IN  prompt' = [prompt EXCEPT
               !.pc = "done",
               !.prompt_parts = prompt_parts,
               !.full_prompt = full_prompt,
               !.result = apply_token_limit(full_prompt, prompt_parts)]
    /\ PromptOthersUnchanged

(***************************************************************************)
(* Specifications                                                          *)
(***************************************************************************)
EmptyStore == [u \in Users |-> {}]

\* the retry wrapper alone, for every argument and failure count in bounds
InitRetry ==
    /\ chatMemory = EmptyStore
    /\ annotations = EmptyStore
    /\ nextUuid = 1
    /\ nullMatchesFalse = FALSE
    /\ messages = <<>>
    /\ hs = [h \in Handlers |-> HandlerIdle]
    /\ passes = [c \in Chats |-> 0]
    /\ faultsLeft = 0
    /\ lastSearch = NoSearch
    /\ lastCall = NoCall
    /\ collections = AllCollections
    /\ ensure = [c \in Callers |-> EnsureIdle]
    /\ baseStore = NoBaseStore
    /\ prompt = PromptIdle
    /\ now = 1
    /\ \E N \in 0..MaxFails, max_retries \in 0..MaxRetriesArg,
          initial_delay \in 1..MaxDelayArg, backoff_factor \in 1..MaxBackoffArg :
          retry = RetryStart(N, max_retries, initial_delay, backoff_factor)

NextRetry == RetryCall \/ RetrySleep

SpecRetry == InitRetry /\ [][NextRetry]_vars

\* the wrapper is sequential code: while it has a step to take it takes it
\* (the wrapped call returns or raises, time.sleep(delay) returns)
SpecRetryFair == InitRetry /\ [][NextRetry]_vars /\ WF_vars(NextRetry)

\* direct calls of the two stores by any tenant
InitStore ==
    /\ chatMemory = EmptyStore
    /\ annotations = EmptyStore
    /\ nextUuid = 1
    /\ nullMatchesFalse = FALSE
    /\ messages = <<>>
    /\ hs = [h \in Handlers |-> HandlerIdle]
    /\ passes = [c \in Chats |-> 0]
    /\ faultsLeft = 0
    /\ lastSearch = NoSearch
    /\ lastCall = Unobserved
    /\ collections = AllCollections
    /\ ensure = [c \in Callers |-> EnsureIdle]
    /\ baseStore = NoBaseStore
    /\ prompt = PromptIdle
    /\ now = 1
    /\ retry = RetryIdle

NextStore ==
    \/ \E u \in Users, c \in Chats, t \in {TYPE_MESSAGE, TYPE_SUMMARY} :
          AddMemory(u, c, t, nextUuid)
    \/ \E u \in Users, c \in Chats, ids \in SUBSET (1..MaxObjects) :
          MarkMessagesAsSummarized(u, c, ids)
    \/ \E u \in Users, c \in Chats, limit \in {1, 5} :
          SearchChatMemories(u, c, limit)
    \/ \E u \in Users, a \in AnnotationIds, b \in Books, t \in Texts :
          AddAnnotation(u, a, b, t)
    \/ \E u \in Users, a \in AnnotationIds, b \in Books, t \in Texts :
          UpdateAnnotation(u, a, b, t)
    \/ \E u \in Users, a \in AnnotationIds : DeleteAnnotation(u, a)
    \/ \E u \in Users, b \in Books : DeleteBookAnnotations(u, b)
    \/ \E u \in Users, b \in Books, limit \in {1, 3} : SearchHighlights(u, b, limit)

SpecStore == InitStore /\ [][NextStore]_vars

\* store objects constructed by two request threads, in any interleaving
InitBaseStore ==
    /\ chatMemory = EmptyStore
    /\ annotations = EmptyStore
    /\ nextUuid = 1
    /\ nullMatchesFalse = FALSE
    /\ messages = <<>>
    /\ hs = [h \in Handlers |-> HandlerIdle]
    /\ passes = [c \in Chats |-> 0]
    /\ faultsLeft = MaxOverlapFaults
    /\ lastSearch = NoSearch
    /\ lastCall = NoCall
    /\ collections = AllCollections
    /\ ensure = [c \in Callers |-> EnsureIdle]
    /\ baseStore = NoBaseStore
    /\ prompt = PromptIdle
    /\ now = 1
    /\ retry = RetryIdle

NextBaseStore ==
    \/ \E t \in Threads : Construct(t)
    \/ \E t \in Threads : GetClient(t)
    \/ \E t \in Threads : CheckClient(t)
    \/ \E t \in Threads : CreateClient(t)
    \/ \E t \in Threads : CreateClientFails(t)
    \/ \E t \in Threads : AssignClient(t)
    \/ \E t \in Threads : CheckModel(t)
    \/ \E t \in Threads : CreateModel(t)
    \/ \E t \in Threads : AssignModel(t)

SpecBaseStore == InitBaseStore /\ [][NextBaseStore]_vars

\* build_memory_prompt called once, for every size of memories, buffer and
\* query in bounds
QueryLens ==
    {5 + 4 * j : j \in 0..MaxQueryPad}
        \cup {k * BlockUnit : k \in 1..MaxBlockUnits}

InitPrompt ==
    /\ chatMemory = EmptyStore
    /\ annotations = EmptyStore
    /\ nextUuid = 1
    /\ nullMatchesFalse = FALSE
    /\ messages = <<>>
    /\ hs = [h \in Handlers |-> HandlerIdle]
    /\ passes = [c \in Chats |-> 0]
    /\ faultsLeft = 0
    /\ lastSearch = NoSearch
    /\ lastCall = NoCall
    /\ collections = AllCollections
    /\ ensure = [c \in Callers |-> EnsureIdle]
    /\ baseStore = NoBaseStore
    /\ \E stored \in 0..MaxBlockUnits, history \in 0..MaxBlockUnits,
          query_len \in QueryLens :
          prompt = BuildMemoryPromptCalled(stored, history, query_len)
    /\ now = 1
    /\ retry = RetryIdle

NextPrompt ==
    \/ SearchRelevantMemories
    \/ \E stage \in {"encode_text", "search_chat_memories"} :
          SearchRelevantMemoriesFails(stage)
    \/ CreateMemoryPrompt

SpecPrompt == InitPrompt /\ [][NextPrompt]_vars

\* CollectionManager() constructed by several callers against a store that
\* holds any part of the three collections (each as this code creates it)
InitEnsure ==
    /\ chatMemory = EmptyStore
    /\ annotations = EmptyStore
    /\ nextUuid = 1
    /\ nullMatchesFalse = FALSE
    /\ messages = <<>>
    /\ hs = [h \in Handlers |-> HandlerIdle]
    /\ passes = [c \in Chats |-> 0]
    /\ faultsLeft = 0
    /\ lastSearch = NoSearch
    /\ lastCall = NoCall
    /\ \E held \in SUBSET Range(CollectionNames) :
          collections = [n \in Range(CollectionNames) |->
              IF n \in held THEN AllCollections[n] ELSE NoCollections[n]]
    /\ ensure = [c \in Callers |-> EnsureIdle]
    /\ baseStore = NoBaseStore
    /\ prompt = PromptIdle
    /\ now = 1
    /\ retry = RetryIdle

EnsureStep(c) == CollectionExists(c) \/ CollectionsCreate(c) \/ EnsureSleep(c)

NextEnsure ==
    \/ \E c \in Callers : EnsureCollections(c)
    \/ \E c \in Callers : CollectionExists(c)
    \/ \E c \in Callers : CollectionsCreate(c)
    \/ \E c \in Callers : EnsureSleep(c)

SpecEnsure == InitEnsure /\ [][NextEnsure]_vars

\* a caller inside _ensure_collections keeps running: the store answers each
\* request and time.sleep returns
SpecEnsureFair ==
    InitEnsure /\ [][NextEnsure]_vars /\ \A c \in Callers : WF_vars(EnsureStep(c))

\* direct calls of the annotation store by any tenant, each call observed
InitAnnotations ==
    /\ chatMemory = EmptyStore
    /\ annotations = EmptyStore
    /\ nextUuid = 1
    /\ nullMatchesFalse = FALSE
    /\ messages = <<>>
    /\ hs = [h \in Handlers |-> HandlerIdle]
    /\ passes = [c \in Chats |-> 0]
    /\ faultsLeft = 0
    /\ lastSearch = NoSearch
    /\ lastCall = NoCall
    /\ collections = AllCollections
    /\ ensure = [c \in Callers |-> EnsureIdle]
    /\ baseStore = NoBaseStore
    /\ prompt = PromptIdle
    /\ now = 1
    /\ retry = RetryIdle

NextAnnotations ==
    \/ \E u \in Users, a \in AnnotationIds, b \in Books :
          AddAnnotation(u, a, b, "t1")
    \/ \E u \in Users, a \in AnnotationIds, b \in Books :
          UpdateAnnotation(u, a, b, "t2")
    \/ \E u \in Users, a \in AnnotationIds : DeleteAnnotation(u, a)
    \/ \E u \in Users, b \in Books : DeleteBookAnnotations(u, b)
    \/ \E u \in Users, b \in Books : SearchHighlights(u, b, 3)

SpecAnnotations == InitAnnotations /\ [][NextAnnotations]_vars

\* summarize_chat called on a conversation that already has a backlog
BacklogMessage(i, chat_id, user_id) ==
    NewMessage(i, chat_id, user_id,
               IF i % 2 = 1 THEN "user" ELSE "assistant", i)

BacklogObject(i, chat_id, user_id) ==
    [MessageMetadata(BacklogMessage(i, chat_id, user_id)) EXCEPT !.uuid = i]

InitBacklogs ==
    {0, memory_summarize_threshold \div 2 - 1, memory_summarize_threshold \div 2,
     memory_summarize_threshold, MaxBacklog}

InitPass ==
    /\ \E n \in InitBacklogs :
          /\ chatMemory = [u \in Users |->
                IF u = "u1"
                  THEN {BacklogObject(i, "c1", "u1") : i \in 1..n}
                       \cup {BacklogObject(n + 1, "c2", "u1")}
                  ELSE {BacklogObject(n + 2, "c1", u)}]
          /\ messages = [i \in 1..(n + 2) |->
                IF i <= n THEN BacklogMessage(i, "c1", "u1")
                ELSE IF i = n + 1 THEN BacklogMessage(i, "c2", "u1")
                ELSE BacklogMessage(i, "c1", "u2")]
          /\ nextUuid = n + 3
          /\ now = n + 3
    /\ annotations = EmptyStore
    /\ nullMatchesFalse \in BOOLEAN
    /\ hs = [h \in Handlers |-> HandlerIdle]
    /\ passes = [c \in Chats |-> 0]
    /\ faultsLeft = MaxFaults
    /\ lastSearch = NoSearch
    /\ lastCall = NoCall
    /\ collections = AllCollections
    /\ ensure = [c \in Callers |-> EnsureIdle]
    /\ baseStore = NoBaseStore
    /\ prompt = PromptIdle
    /\ retry = RetryIdle

\* one caller at a time
SummarizeChatAlone(h, chat_id, user_id, message_count) ==
    /\ \A g \in Handlers \ {h} : hs[g].pc = "idle"
    /\ SummarizeChat(h, chat_id, user_id, message_count)

NextPass ==
    \/ \E h \in Handlers, c \in Chats, u \in Users, n \in 0..MaxCountArg :
          SummarizeChatAlone(h, c, u, n)
    \/ \E h \in Handlers : FetchUnsummarized(h)
    \/ \E h \in Handlers : FetchUnsummarizedFails(h)
    \/ \E h \in Handlers : LlmSummary(h)
    \/ \E h \in Handlers : LlmNoSummary(h)
    \/ \E h \in Handlers : EncodeSummary(h)
    \/ \E h \in Handlers : EncodeSummaryFails(h)
    \/ \E h \in Handlers : SaveSummary(h)
    \/ \E h \in Handlers : SaveSummaryFails(h)
    \/ \E h \in Handlers : MarkBatch(h)
    \/ \E h \in Handlers, k \in 0..MaxPartial : MarkBatchFails(h, k)
    \/ \E h \in Handlers : ReturnToCaller(h)

SpecPass == InitPass /\ [][NextPass]_vars

\* summarize_chat called by two request handlers at overlapping times
InitOverlap ==
    /\ \E n \in {memory_summarize_threshold, MaxBacklog} :
          /\ chatMemory = [u \in Users |->
                IF u = "u1"
                  THEN {BacklogObject(i, "c1", "u1") : i \in 1..n}
                       \cup {BacklogObject(n + 1, "c2", "u1")}
                  ELSE {BacklogObject(n + 2, "c1", u)}]
          /\ messages = [i \in 1..(n + 2) |->
                IF i <= n THEN BacklogMessage(i, "c1", "u1")
                ELSE IF i = n + 1 THEN BacklogMessage(i, "c2", "u1")
                ELSE BacklogMessage(i, "c1", "u2")]
          /\ nextUuid = n + 3
          /\ now = n + 3
    /\ annotations = EmptyStore
    /\ nullMatchesFalse \in BOOLEAN
    /\ hs = [h \in Handlers |-> HandlerIdle]
    /\ passes = [c \in Chats |-> 0]
    /\ faultsLeft = MaxOverlapFaults
    /\ lastSearch = NoSearch
    /\ lastCall = NoCall
    /\ collections = AllCollections
    /\ ensure = [c \in Callers |-> EnsureIdle]
    /\ baseStore = NoBaseStore
    /\ prompt = PromptIdle
    /\ retry = RetryIdle

NextOverlap ==
    \/ \E h \in Handlers, c \in Chats, u \in Users,
          n \in {memory_summarize_threshold, 2 * memory_summarize_threshold} :
          SummarizeChat(h, c, u, n)
    \/ \E h \in Handlers : FetchUnsummarized(h)
    \/ \E h \in Handlers : FetchUnsummarizedFails(h)
    \/ \E h \in Handlers : LlmSummary(h)
    \/ \E h \in Handlers : LlmNoSummary(h)
    \/ \E h \in Handlers : EncodeSummary(h)
    \/ \E h \in Handlers : EncodeSummaryFails(h)
    \/ \E h \in Handlers : SaveSummary(h)
    \/ \E h \in Handlers : SaveSummaryFails(h)
    \/ \E h \in Handlers : MarkBatch(h)
    \/ \E h \in Handlers, k \in 0..MaxPartial : MarkBatchFails(h, k)
    \/ \E h \in Handlers : ReturnToCaller(h)

SpecOverlap == InitOverlap /\ [][NextOverlap]_vars

(***************************************************************************)
(* CreateMessageUseCaseImpl.execute and MessageProcessor                   *)
(***************************************************************************)
\* VectorizationService.vectorize_message: encode_text and add_memory under
\* their retries; when the retries are exhausted the error is logged and
\* swallowed and no object is stored
VectorizeMessage(message, stored) ==
    IF stored
      THEN /\ chatMemory' = DataInsert(chatMemory, message.sender_id,
                                       MessageMetadata(message), nextUuid)
           /\ nextUuid' = nextUuid + 1
           /\ UNCHANGED faultsLeft
      ELSE /\ faultsLeft > 0
           /\ faultsLeft' = faultsLeft - 1
           /\ UNCHANGED <<chatMemory, nextUuid>>

\* execute, line 60-62: ensure_chat_exists, then
\* MessageProcessor.save_user_message: repository save, vectorize_message
SaveUserMessage(h, sender_id, chat_id) ==
    /\ hs[h].pc = "idle"
    /\ Len(messages) < MaxMessages
    /\ LET user_message == NewMessage(Len(messages) + 1, chat_id, sender_id,
                                      "user", now)
       IN  /\ messages' = Append(messages, user_message)
           /\ \E stored \in BOOLEAN : VectorizeMessage(user_message, stored)
    /\ now' = now + 1
    /\ hs' = [hs EXCEPT ![h] =
          [HandlerIdle EXCEPT !.pc = "saved", !.user_id = sender_id,
                              !.chat_id = chat_id,
                              !.count_at_save =
                                  count_by_chat_id(messages', chat_id)]]
    /\ UNCHANGED <<annotations, nullMatchesFalse, passes, lastSearch, retry,
                   lastCall, collections, ensure, prompt, baseStore>>

\* MessageProcessor.process_summarization: count_by_chat_id, summarize_chat
ProcessSummarization(h) ==
    /\ hs[h].pc = "saved"
    /\ EnterSummarizeChat(h, hs[h].user_id, hs[h].chat_id,
                          count_by_chat_id(messages, hs[h].chat_id))
    /\ UNCHANGED <<chatMemory, annotations, nextUuid, nullMatchesFalse,
                   messages, faultsLeft, lastSearch, now, retry,
                   lastCall, collections, ensure, prompt, baseStore>>

\* count_by_chat_id: `except Exception: return 0`
ProcessSummarizationCountFails(h) ==
    /\ hs[h].pc = "saved"
    /\ faultsLeft > 0
    /\ faultsLeft' = faultsLeft - 1
    /\ EnterSummarizeChat(h, hs[h].user_id, hs[h].chat_id, 0)
    /\ UNCHANGED <<chatMemory, annotations, nextUuid, nullMatchesFalse,
                   messages, lastSearch, now, retry,
                   lastCall, collections, ensure, prompt, baseStore>>

\* execute, line 66-67: get_latest_messages and build_memory_prompt, reached
\* when process_summarization returned without raising; history holds the
\* messages of the recent-history lines of the prompt, in line order
PromptBuilt(h) ==
    [hs[h] EXCEPT !.pc = "prompted",
                  !.history = HistoryItems(
                      get_latest_messages(messages, hs[h].chat_id))]

\* positions of a handler inside a running summarization pass
PassPcs == {"fetch", "llm", "encode", "add", "mark"}

\* MemoryService.summarize_chat calls SummarizationService.summarize_chat and
\* returns when it has returned
MemoryServiceDelegatesInline_detached == FALSE

MemoryServiceDelegatesInline == TRUE

\* execute, line 64: process_summarization has returned
PassReturned(h) ==
    IF MemoryServiceDelegatesInline
      THEN hs[h].pc = "summarized"
      ELSE hs[h].pc \in PassPcs \cup {"summarized"}

BuildPrompt(h) ==
    /\ PassReturned(h)
    /\ ~hs[h].raised
    /\ hs' = [hs EXCEPT ![h] = PromptBuilt(h)]
    /\ UNCHANGED <<chatMemory, annotations, nextUuid, nullMatchesFalse,
                   messages, passes, faultsLeft, lastSearch, now, retry,
                   lastCall, collections, ensure, prompt, baseStore>>

\* build_memory_prompt when encode_text or search_chat_memories fails:
\* search_relevant_memories returns [] and the prompt is built without memories
BuildPromptRetrievalFails(h) ==
    /\ PassReturned(h)
    /\ ~hs[h].raised
    /\ faultsLeft > 0
    /\ faultsLeft' = faultsLeft - 1
    /\ hs' = [hs EXCEPT ![h] = PromptBuilt(h)]
    /\ UNCHANGED <<chatMemory, annotations, nextUuid, nullMatchesFalse,
                   messages, passes, lastSearch, now, retry,
                   lastCall, collections, ensure, prompt, baseStore>>

\* stream_ai_response up to the model call: search_relevant_highlights returns
\* and the chain starts streaming
StreamAiResponse(h) ==
    /\ hs[h].pc = "prompted"
    /\ hs' = [hs EXCEPT ![h] = [@ EXCEPT !.pc = "stream"]]
    /\ UNCHANGED <<chatMemory, annotations, nextUuid, nullMatchesFalse,
                   messages, passes, faultsLeft, lastSearch, now, retry,
                   lastCall, collections, ensure, prompt, baseStore>>

\* search_relevant_highlights, line 25-43: search_highlights raises inside the
\* try; ["Search error occurred"] is returned and the chain starts streaming
HighlightSearchFails(h) ==
    /\ hs[h].pc = "prompted"
    /\ faultsLeft > 0
    /\ faultsLeft' = faultsLeft - 1
    /\ hs' = [hs EXCEPT ![h] = [@ EXCEPT !.pc = "stream"]]
    /\ UNCHANGED <<chatMemory, annotations, nextUuid, nullMatchesFalse,
                   messages, passes, lastSearch, now, retry,
                   lastCall, collections, ensure, prompt, baseStore>>

\* search_relevant_highlights, line 23: encode_text(question) is called before
\* the try; when its retries are exhausted the error leaves
\* search_relevant_highlights, stream_ai_response and execute
HighlightEncodeEscapes == TRUE

HighlightEncodeFails(h) ==
    /\ hs[h].pc = "prompted"
    /\ faultsLeft > 0
    /\ faultsLeft' = faultsLeft - 1
    /\ hs' = [hs EXCEPT ![h] =
          [@ EXCEPT !.pc = IF HighlightEncodeEscapes
                             THEN "execute_raised" ELSE "stream"]]
    /\ UNCHANGED <<chatMemory, annotations, nextUuid, nullMatchesFalse,
                   messages, passes, lastSearch, now, retry,
                   lastCall, collections, ensure, prompt, baseStore>>

\* the error reaches the caller of execute: the request ends without a chunk
\* and without an AI message
ExecuteRaised(h) ==
    /\ hs[h].pc = "execute_raised"
    /\ hs' = [hs EXCEPT ![h] = HandlerIdle]
    /\ UNCHANGED <<chatMemory, annotations, nextUuid, nullMatchesFalse,
                   messages, passes, faultsLeft, lastSearch, now, retry,
                   lastCall, collections, ensure, prompt, baseStore>>

\* execute, line 69-72: one chunk is appended to ai_response_chunks and
\* yielded to the consumer
YieldChunk(h) ==
    /\ hs[h].pc = "stream"
    /\ hs[h].chunks < MaxChunks
    /\ hs' = [hs EXCEPT ![h] = [@ EXCEPT !.chunks = @ + 1]]
    /\ UNCHANGED <<chatMemory, annotations, nextUuid, nullMatchesFalse,
                   messages, passes, faultsLeft, lastSearch, now, retry,
                   lastCall, collections, ensure, prompt, baseStore>>

\* execute, line 69-75: the stream is consumed to its end, then
\* MessageProcessor.save_ai_message: repository save, vectorize_message
SaveAiMessage(h) ==
    /\ hs[h].pc = "stream"
    /\ Len(messages) < MaxMessages
    /\ LET ai_message == NewMessage(Len(messages) + 1, hs[h].chat_id,
                                    hs[h].user_id, "assistant", now)
       IN  /\ messages' = Append(messages, ai_message)
           /\ \E stored \in BOOLEAN : VectorizeMessage(ai_message, stored)
    /\ now' = now + 1
    /\ hs' = [hs EXCEPT ![h] = HandlerIdle]
    /\ UNCHANGED <<annotations, nullMatchesFalse, passes, lastSearch, retry,
                   lastCall, collections, ensure, prompt, baseStore>>

\* execute, line 70-72: the model raises mid-stream or the consumer stops
\* iterating; line 74-75 are never reached
StreamAbandoned(h) ==
    /\ hs[h].pc = "stream"
    /\ faultsLeft > 0
    /\ faultsLeft' = faultsLeft - 1
    /\ hs' = [hs EXCEPT ![h] = HandlerIdle]
    /\ UNCHANGED <<chatMemory, annotations, nextUuid, nullMatchesFalse,
                   messages, passes, lastSearch, now, retry,
                   lastCall, collections, ensure, prompt, baseStore>>

\* DeleteMessageUseCaseImpl.execute: soft delete of a row not yet deleted
DeleteMessage(i) ==
    /\ i \in 1..Len(messages)
    /\ ~messages[i].deleted
    /\ Cardinality({j \in 1..Len(messages) : messages[j].deleted}) < MaxDeletes
    /\ messages' = [messages EXCEPT ![i].deleted = TRUE]
    /\ UNCHANGED <<chatMemory, annotations, nextUuid, nullMatchesFalse, hs,
                   passes, faultsLeft, lastSearch, now, retry,
                   lastCall, collections, ensure, prompt, baseStore>>

\* a request that arrives when no other request is being handled
SaveUserMessageAlone(h, sender_id, chat_id) ==
    /\ \A g \in Handlers \ {h} : hs[g].pc = "idle"
    /\ SaveUserMessage(h, sender_id, chat_id)

\* request handlers of one conversation of one user
E2ESenders == {"u1"}
E2EChats == {"c1"}

Init ==
    /\ chatMemory = EmptyStore
    /\ annotations = EmptyStore
    /\ nextUuid = 1
    /\ nullMatchesFalse \in BOOLEAN
    /\ messages = <<>>
    /\ hs = [h \in Handlers |-> HandlerIdle]
    /\ passes = [c \in Chats |-> 0]
    /\ faultsLeft = MaxE2EFaults
    /\ lastSearch = NoSearch
    /\ lastCall = NoCall
    /\ collections = AllCollections
    /\ ensure = [c \in Callers |-> EnsureIdle]
    /\ baseStore = NoBaseStore
    /\ prompt = PromptIdle
    /\ now = 1
    /\ retry = RetryIdle

Next ==
    \/ \E h \in Handlers, u \in E2ESenders, c \in E2EChats :
          SaveUserMessageAlone(h, u, c)
    \/ \E h \in Handlers : ProcessSummarization(h)
    \/ \E h \in Handlers : ProcessSummarizationCountFails(h)
    \/ \E h \in Handlers : FetchUnsummarized(h)
    \/ \E h \in Handlers : FetchUnsummarizedFails(h)
    \/ \E h \in Handlers : LlmSummary(h)
    \/ \E h \in Handlers : LlmNoSummary(h)
    \/ \E h \in Handlers : EncodeSummary(h)
    \/ \E h \in Handlers : EncodeSummaryFails(h)
    \/ \E h \in Handlers : SaveSummary(h)
    \/ \E h \in Handlers : SaveSummaryFails(h)
    \/ \E h \in Handlers : MarkBatch(h)
    \/ \E h \in Handlers, k \in 0..MaxPartial : MarkBatchFails(h, k)
    \/ \E h \in Handlers : BuildPrompt(h)
    \/ \E h \in Handlers : BuildPromptRetrievalFails(h)
    \/ \E h \in Handlers : StreamAiResponse(h)
    \/ \E h \in Handlers : HighlightSearchFails(h)
    \/ \E h \in Handlers : HighlightEncodeFails(h)
    \/ \E h \in Handlers : ExecuteRaised(h)
    \/ \E h \in Handlers : SaveAiMessage(h)
    \/ \E h \in Handlers : StreamAbandoned(h)
    \/ \E i \in 1..MaxMessages : DeleteMessage(i)

Spec == Init /\ [][Next]_vars

\* a conversation that is one message short of the threshold, with a budget
\* of failing calls
InitNearThreshold(faults) ==
    /\ LET n == memory_summarize_threshold - 1
       IN  /\ chatMemory = [u \in Users |->
                 IF u = "u1" THEN {BacklogObject(i, "c1", "u1") : i \in 1..n}
                 ELSE {}]
           /\ messages = [i \in 1..n |-> BacklogMessage(i, "c1", "u1")]
           /\ nextUuid = n + 1
           /\ now = n + 1
    /\ annotations = EmptyStore
    /\ nullMatchesFalse \in BOOLEAN
    /\ hs = [h \in Handlers |-> HandlerIdle]
    /\ passes = [c \in Chats |-> 0]
    /\ faultsLeft = faults
    /\ lastSearch = NoSearch
    /\ lastCall = NoCall
    /\ collections = AllCollections
    /\ ensure = [c \in Callers |-> EnsureIdle]
    /\ baseStore = NoBaseStore
    /\ prompt = PromptIdle
    /\ retry = RetryIdle

\* execute calls handled one at a time, chunk by chunk, with failing calls
\* and no deletion
InitExecute == InitNearThreshold(MaxE2EFaults)

NextExecute ==
    \/ \E h \in Handlers, u \in E2ESenders, c \in E2EChats :
          SaveUserMessageAlone(h, u, c)
    \/ \E h \in Handlers : ProcessSummarization(h)
    \/ \E h \in Handlers : ProcessSummarizationCountFails(h)
    \/ \E h \in Handlers : FetchUnsummarized(h)
    \/ \E h \in Handlers : FetchUnsummarizedFails(h)
    \/ \E h \in Handlers : LlmSummary(h)
    \/ \E h \in Handlers : LlmNoSummary(h)
    \/ \E h \in Handlers : EncodeSummary(h)
    \/ \E h \in Handlers : EncodeSummaryFails(h)
    \/ \E h \in Handlers : SaveSummary(h)
    \/ \E h \in Handlers : SaveSummaryFails(h)
    \/ \E h \in Handlers : MarkBatch(h)
    \/ \E h \in Handlers, k \in 0..MaxPartial : MarkBatchFails(h, k)
    \/ \E h \in Handlers : BuildPrompt(h)
    \/ \E h \in Handlers : BuildPromptRetrievalFails(h)
    \/ \E h \in Handlers : StreamAiResponse(h)
    \/ \E h \in Handlers : HighlightSearchFails(h)
    \/ \E h \in Handlers : HighlightEncodeFails(h)
    \/ \E h \in Handlers : ExecuteRaised(h)
    \/ \E h \in Handlers : YieldChunk(h)
    \/ \E h \in Handlers : SaveAiMessage(h)
    \/ \E h \in Handlers : StreamAbandoned(h)

SpecExecute == InitExecute /\ [][NextExecute]_vars

\* execute called by two request handlers at overlapping times; no call fails
InitConcurrent == InitNearThreshold(0)

NextConcurrent ==
    \/ \E h \in Handlers, u \in E2ESenders, c \in E2EChats :
          SaveUserMessage(h, u, c)
    \/ \E h \in Handlers : ProcessSummarization(h)
    \/ \E h \in Handlers : FetchUnsummarized(h)
    \/ \E h \in Handlers : LlmSummary(h)
    \/ \E h \in Handlers : EncodeSummary(h)
    \/ \E h \in Handlers : SaveSummary(h)
    \/ \E h \in Handlers : MarkBatch(h)
    \/ \E h \in Handlers : BuildPrompt(h)
    \/ \E h \in Handlers : StreamAiResponse(h)
    \/ \E h \in Handlers : YieldChunk(h)
    \/ \E h \in Handlers : SaveAiMessage(h)
    \/ \E i \in 1..MaxMessages : DeleteMessage(i)

SpecConcurrent == InitConcurrent /\ [][NextConcurrent]_vars

(***************************************************************************)
(* Properties                                                              *)
(***************************************************************************)

\* the message objects of handler h's batch, as they are in the store now
BatchObjects(h) ==
    MarkMatches(chatMemory, hs[h].user_id, hs[h].chat_id,
                MessageIdsOf(hs[h].batch))

\* the summary objects stored for the text of handler h's batch
SummariesOfBatch(h) ==
    {o \in with_tenant(chatMemory, hs[h].user_id) :
        /\ o.memory_type = TYPE_SUMMARY
        /\ o.chat_id = hs[h].chat_id
        /\ o.content = CombinedText(hs[h].batch)}

\* C1: a search scoped to one tenant (search_chat_memories, search_highlights)
\* returns only objects that were inserted for that tenant, whatever inserts,
\* updates and deletes came before and whatever the chat id / book id filter.
C1_TenantIsolation ==
    lastSearch.kind # "none" =>
        \A o \in lastSearch.results : o.user_id = lastSearch.user_id

\* a highlight search that returned an object while another tenant holds an
\* object under the same book id
C1_Witness ==
    /\ lastSearch.kind = "highlights"
    /\ lastSearch.results # {}
    /\ \E u \in Users \ {lastSearch.user_id} :
          \E o \in annotations[u] : o.book_id = lastSearch.key

\* every execute so far persisted its user message and then its AI message:
\* nothing failed and no row was deleted
CleanHistory ==
    /\ faultsLeft = MaxE2EFaults
    /\ \A i \in 1..Len(messages) : ~messages[i].deleted

\* C2 (as claimed): with messages created through execute only, persisting the
\* conversation's 20th message triggers exactly one summarization pass and no
\* further pass starts before the 40th message.
C2_Original ==
    (CleanHistory /\ \A h \in Handlers : hs[h].pc = "idle") =>
        /\ Len(messages) < memory_summarize_threshold => passes["c1"] = 0
        /\ (Len(messages) >= memory_summarize_threshold
            /\ Len(messages) < 2 * memory_summarize_threshold)
              => passes["c1"] = 1

\* C3 (as claimed): summarize_chat starts a pass exactly when the message count
\* it is given is a multiple of the threshold.
C3_Original ==
    \A h \in Handlers : hs[h].pc # "idle" =>
        (hs[h].outcome # "skipped"
           <=> hs[h].message_count % memory_summarize_threshold = 0)

\* C3 (amended): summarize_chat starts a pass exactly when the message count it
\* is given is a positive multiple of the threshold; for 0 it starts none.
C3_PositiveMultiple ==
    \A h \in Handlers : hs[h].pc # "idle" =>
        (hs[h].outcome # "skipped"
           <=> \E m \in 1..MaxCountArg :
                  hs[h].message_count = m * memory_summarize_threshold)

\* summarize_chat was given twice the threshold and started a pass
C3_Witness ==
    \E h \in Handlers :
        /\ hs[h].pc = "fetch"
        /\ hs[h].message_count = 2 * memory_summarize_threshold

\* C4: a pass whose fetch returned fewer than threshold/2 records calls no
\* model, inserts no summary and marks no message: it has ended.
C4_NoShortBacklog ==
    \A h \in Handlers :
        Len(hs[h].batch) < memory_summarize_threshold \div 2 =>
            /\ ~hs[h].llm_called
            /\ ~hs[h].inserted
            /\ hs[h].marked = {}
            /\ hs[h].pc \notin {"llm", "encode", "add", "mark"}

\* a pass fetched a backlog of 1..9 records and aborted
C4_Witness ==
    \E h \in Handlers :
        /\ hs[h].outcome = "abort"
        /\ Len(hs[h].batch) > 0
        /\ Len(hs[h].batch) < memory_summarize_threshold \div 2

\* C5 (as claimed): after a pass that completed, every message record of its
\* batch is marked summarized and exactly one summary record exists for that
\* batch, also when two passes of the conversation overlap.
C5_Original ==
    \A h \in Handlers : hs[h].outcome = "done" =>
        /\ \A o \in BatchObjects(h) : o.is_summarized = "true"
        /\ Cardinality(SummariesOfBatch(h)) = 1

\* C6: a pass marks a message only after it has inserted its summary, and a
\* message marked summarized always has a stored summary of its tenant and
\* conversation that folds its text.
C6_MarkAfterInsert ==
    /\ \A h \in Handlers : hs[h].marked # {} => hs[h].inserted
    /\ \A u \in Users : \A o \in chatMemory[u] :
          (o.memory_type = TYPE_MESSAGE /\ o.is_summarized = "true") =>
              \E sm \in chatMemory[u] :
                  /\ sm.memory_type = TYPE_SUMMARY
                  /\ sm.chat_id = o.chat_id
                  /\ Range(o.content) \subseteq Range(sm.content)

\* a pass failed after its summary was inserted and part of its batch marked
C6_Witness ==
    \E h \in Handlers :
        /\ hs[h].outcome = "error"
        /\ hs[h].inserted
        /\ hs[h].marked # {}

\* C7 (as claimed): at the end of a pass either every message record of its
\* batch is marked summarized or none is.
C7_Original ==
    \A h \in Handlers : hs[h].pc = "summarized" =>
        \/ \A o \in BatchObjects(h) : o.is_summarized = "true"
        \/ \A o \in BatchObjects(h) : o.is_summarized # "true"

\* C8: no failure of a step of the pass escapes summarize_chat: a pass that
\* failed has returned to its caller normally.
C8_NeverRaises ==
    \A h \in Handlers :
        /\ ~hs[h].raised
        /\ hs[h].outcome = "error" => hs[h].pc = "summarized"

\* a pass gave up on a store call after its retries and returned
C8_Witness ==
    \E h \in Handlers :
        /\ hs[h].outcome = "error"
        /\ hs[h].pc = "summarized"
        /\ ~hs[h].inserted
        /\ hs[h].llm_called

\* C9: a pass that got no summary text from the model has inserted nothing and
\* marked nothing, and has ended; the backlog it fetched is still the backlog.
C9_NoSummaryNoChange ==
    \A h \in Handlers : hs[h].outcome = "no_summary" =>
        /\ ~hs[h].inserted
        /\ hs[h].marked = {}
        /\ hs[h].pc = "summarized"
        /\ get_unsummarized_messages(chatMemory, hs[h].user_id, hs[h].chat_id,
                                     memory_summarize_threshold) = hs[h].batch

\* the model failed on a full batch
C9_Witness ==
    \E h \in Handlers :
        /\ hs[h].outcome = "no_summary"
        /\ Len(hs[h].batch) = memory_summarize_threshold

\* C10: with max_retries >= N the wrapper never raises, and when it returns it
\* returns the success value after exactly N + 1 invocations.
C10_RetrySuccess ==
    retry.max_retries >= retry.N =>
        /\ retry.pc # "raised"
        /\ retry.pc = "returned" =>
              (retry.calls = retry.N + 1 /\ retry.outcome = "success")

\* the wrapper returned after using up all its retries
C10_Witness ==
    /\ retry.pc = "returned"
    /\ retry.N >= 1
    /\ retry.N = retry.max_retries

(***************************************************************************)
(* C11  Retry exhaustion: with max_retries < N the wrapped operation is   *)
(* invoked exactly max_retries + 1 times, then the error of that last      *)
(* invocation reaches the caller (the wrapper never returns a value), and  *)
(* every call of the wrapper terminates.                                   *)
(***************************************************************************)
RetryTerminated == retry.pc \in {"raised", "returned"}

C11_ExhaustionState ==
    retry.max_retries < retry.N =>
        /\ retry.pc # "returned"
        /\ retry.outcome # "success"
        /\ retry.calls <= retry.max_retries + 1
        /\ retry.pc = "raised" =>
              /\ retry.calls = retry.max_retries + 1
              /\ retry.outcome = "error"
              /\ retry.raised = retry.calls

C11_RetryExhaustion == [](C11_ExhaustionState) /\ <>RetryTerminated

C11_Witness ==
    /\ retry.pc = "raised"
    /\ retry.max_retries >= 1
    /\ retry.max_retries < retry.N
    /\ retry.raised = retry.max_retries + 1

(***************************************************************************)
(* C12  Exponential backoff: every sleep is followed by another attempt    *)
(* (none after the final failed attempt), and the k-th sleep lasts         *)
(* initial_delay * backoff_factor^(k-1).                                   *)
(***************************************************************************)
RECURSIVE Pow(_, _)
Pow(b, e) == IF e = 0 THEN 1 ELSE b * Pow(b, e - 1)

C12_Backoff ==
    /\ Len(retry.sleeps) = IF retry.pc = "call" THEN retry.calls
                           ELSE IF retry.calls = 0 THEN 0 ELSE retry.calls - 1
    /\ \A k \in 1..Len(retry.sleeps) :
          retry.sleeps[k] = retry.initial_delay * Pow(retry.backoff_factor, k - 1)

C12_Witness ==
    /\ retry.pc = "raised"
    /\ Len(retry.sleeps) = 3
    /\ retry.backoff_factor = 3
    /\ retry.initial_delay = 2
    /\ retry.sleeps = <<2, 6, 18>>

DeleteOps == {"delete_annotation", "delete_book_annotations"}

KeyMatches(call) ==
    IF call.op = "delete_book_annotations"
      THEN HighlightMatches(annotations, call.user_id, call.key)
      ELSE AnnotationMatches(annotations, call.user_id, call.key)

AllExist(colls) == \A n \in Range(CollectionNames) : colls[n].exists

C16_EnsureIdempotent ==
    \A c \in Callers :
        /\ ensure[c].pc = "returned" =>
              \A n \in Range(CollectionNames) :
                  collections[n].exists /\ collections[n].multi_tenancy
        /\ (ensure[c].pc # "idle" /\ AllExist(ensure[c].before)) =>
              /\ ensure[c].pc \in {"exists", "returned"}
              /\ ensure[c].retries = 0
              /\ ensure[c].created = {}
              /\ collections = ensure[c].before

\* a caller that created all three collections called again and returned
C16_Witness ==
    \E c \in Callers :
        /\ ensure[c].pc = "returned"
        /\ ensure[c].calls = 2
        /\ AllExist(ensure[c].before)
        /\ \A n \in Range(CollectionNames) : collections[n].creations = 1
        /\ \A d \in Callers \ {c} : ensure[d].pc = "idle"

(***************************************************************************)
(* C17  _ensure_collections run by several callers at once against a      *)
(* store holding none of the collections: no caller ends with an error,    *)
(* every caller that has started returns, a caller that has returned finds *)
(* all three collections, and each collection was created exactly once.    *)
(***************************************************************************)
NonePreexisting ==
    \A n \in Range(CollectionNames) :
        collections[n].exists => collections[n].creations >= 1

C17_ConcurrentState ==
    NonePreexisting =>
        /\ \A n \in Range(CollectionNames) : collections[n].creations <= 1
        /\ \A c \in Callers :
              /\ ensure[c].pc # "raised"
              /\ ensure[c].pc = "returned" =>
                    \A n \in Range(CollectionNames) :
                        /\ collections[n].exists
                        /\ collections[n].multi_tenancy
                        /\ collections[n].creations = 1

C17_ConcurrentEnsure ==
    /\ [](C17_ConcurrentState)
    /\ \A c \in Callers :
          (ensure[c].pc \in {"exists", "create", "sleep"})
              ~> (ensure[c].pc = "returned")

\* a caller lost the exists-then-create race for every collection and returned
C17_Witness ==
    /\ NonePreexisting
    /\ \E c \in Callers :
          /\ ensure[c].pc = "returned"
          /\ ensure[c].calls = 1
          /\ ensure[c].retries = EnsureMaxRetries
          /\ ensure[c].created = {}
          /\ ensure[c].before = NoCollections

(***************************************************************************)
(* C13  search_relevant_memories never raises: when vectorizing the query  *)
(* or the store search fails it returns the empty list, and                *)
(* build_memory_prompt still returns a prompt that contains the system     *)
(* instruction and the user query.                                         *)
(***************************************************************************)
\* text `part` occurs in text `t`, piece for piece
Contains(t, part) ==
    \E i \in 0..(Len(t) - Len(part)) : SubSeq(t, i + 1, i + Len(part)) = part

C13_RetrievalNeverRaises ==
    /\ prompt.pc # "raised"
    /\ prompt.failed # "none" =>
          /\ prompt.chat_memories = 0
          /\ prompt.pc = "done" =>
                /\ Contains(prompt.result, system_prompt)
                /\ Contains(prompt.result,
                            Literal("user_query", prompt.query_len))
                /\ ~Contains(prompt.result, memory_header)

\* the search failed although the store holds memories for the query, and the
\* prompt was built from a buffer too long for the budget
C13_Witness ==
    /\ prompt.pc = "done"
    /\ prompt.failed = "search_chat_memories"
    /\ prompt.stored > 0
    /\ prompt.history > 0
    /\ prompt.result # prompt.full_prompt

(***************************************************************************)
(* C18  Prompt under budget: when the full concatenation is estimated at   *)
(* no more than 8192 tokens, the returned prompt is that concatenation of  *)
(* system instruction, memories, buffer and user-query suffix, unmodified. *)
(***************************************************************************)
Concatenation ==
    Join(PromptParts(prompt.chat_memories, prompt.history, prompt.query_len),
         NL)

C18_UnderBudgetUnchanged ==
    (prompt.pc = "done" /\ estimate_tokens(Concatenation) <= max_tokens) =>
        prompt.result = Concatenation

\* all four blocks, estimated at exactly the budget
C18_Witness ==
    /\ prompt.pc = "done"
    /\ prompt.chat_memories > 0
    /\ prompt.history > 0
    /\ estimate_tokens(Concatenation) = max_tokens
    /\ Len(prompt.prompt_parts) = 4

(***************************************************************************)
(* C19  Prompt over budget: whenever the full concatenation is estimated   *)
(* above 8192 tokens, the returned prompt is estimated at no more than     *)
(* 8192 tokens by the same estimator.                                      *)
(***************************************************************************)
C19_Original ==
    (prompt.pc = "done" /\ estimate_tokens(Concatenation) > max_tokens) =>
        estimate_tokens(prompt.result) <= max_tokens

(***************************************************************************)
(* C20  Prompt over budget: the returned prompt starts with the complete   *)
(* system instruction and ends with the complete user-query suffix; only   *)
(* the middle blocks are cut and given an ellipsis, and they keep their    *)
(* order.                                                                  *)
(***************************************************************************)
\* text.split("\n") on the separators of the join
RECURSIVE SplitLines(_)
SplitLines(t) ==
    IF t = <<>> THEN << <<>> >>
    ELSE LET rest == SplitLines(Tail(t))
         IN  IF Head(t).src = "nl"
               THEN << <<>> >> \o rest
               ELSE << <<Head(t)>> \o Head(rest) >> \o Tail(rest)

\* y is the block itself, or a proper prefix of the block plus an ellipsis
TruncationOf(y, block) ==
    \/ y = block
    \/ /\ Len(y) >= 2
       /\ <<y[Len(y)]>> = Ellipsis
       /\ LET body == SubSeq(y, 1, Len(y) - 1)
          IN  /\ TextLen(body) < TextLen(block)
              /\ TakeChars(block, TextLen(body)) = body

C20_ReservedBlocksVerbatim ==
    (prompt.pc = "done" /\ estimate_tokens(Concatenation) > max_tokens) =>
        LET r == prompt.result
            parts == PromptParts(prompt.chat_memories, prompt.history,
                                 prompt.query_len)
            suffix == parts[Len(parts)]
            middle == SubSeq(parts, 2, Len(parts) - 1)
            inner == SubSeq(r, Len(system_prompt) + 1, Len(r) - Len(suffix))
            lines == SplitLines(inner)
        IN  /\ Len(r) >= Len(system_prompt) + Len(suffix)
            /\ SubSeq(r, 1, Len(system_prompt)) = system_prompt
            /\ SubSeq(r, Len(r) - Len(suffix) + 1, Len(r)) = suffix
            /\ IF middle = <<>>
                  THEN inner = NL
                  ELSE /\ Len(lines) = Len(middle) + 1
                       /\ lines[1] = <<>>
                       /\ \A i \in 1..Len(middle) :
                             TruncationOf(lines[i + 1], middle[i])

\* both middle blocks present and both cut
C20_Witness ==
    /\ prompt.pc = "done"
    /\ estimate_tokens(Concatenation) > max_tokens
    /\ Len(prompt.prompt_parts) = 4
    /\ Len(SelectSeq(prompt.result, LAMBDA x : <<x>> = Ellipsis)) = 2

(***************************************************************************)
(* C21 (as claimed)  The recent-history block of the prompt lists the      *)
(* buffer that get_latest_messages hands to build_memory_prompt oldest     *)
(* first: its lines are in ascending creation-time order, and no line is   *)
(* of a deleted message.                                                   *)
(***************************************************************************)
C21_Original ==
    \A h \in Handlers : hs[h].pc \in {"prompted", "stream"} =>
        /\ \A i, j \in 1..Len(hs[h].history) :
              i < j => hs[h].history[i].created_at
                          <= hs[h].history[j].created_at
        /\ \A i \in 1..Len(hs[h].history) : ~hs[h].history[i].deleted

(***************************************************************************)
(* C22 (as claimed)  The store connection and the embedding model are      *)
(* process-wide singletons: however many store objects are constructed,    *)
(* one after another or at the same time by several request threads, the   *)
(* connection is created at most once, the embedding model at most once,   *)
(* and every store object holds those same instances.                      *)
(***************************************************************************)
C22_Original ==
    /\ baseStore.clients_created <= 1
    /\ baseStore.models_created <= 1
    /\ \A o \in baseStore.objects :
          /\ o.client = baseStore.shared_client
          /\ o.embedding_model = baseStore.shared_embedding_model

(***************************************************************************)
(* C23 (as claimed)  The conversation always receives a response: execute  *)
(* reaches the generative-model call whenever the relational save of the   *)
(* user message succeeded, whatever fails among vectorizing or inserting   *)
(* the message, summarization, chat-memory retrieval, and vectorizing or   *)
(* searching highlights: no such failure makes execute raise.              *)
(***************************************************************************)
C23_Original ==
    \A h \in Handlers : hs[h].pc # "execute_raised"

(***************************************************************************)
(* C24 (as claimed)  Annotation id is unique per tenant: after any         *)
(* sequence of add, update and delete calls the annotation collection of   *)
(* a tenant holds at most one record for each annotation_id.               *)
(***************************************************************************)
C24_Original ==
    \A u \in Users, a \in AnnotationIds :
        Cardinality(AnnotationMatches(annotations, u, a)) <= 1

(***************************************************************************)
(* C25 (as claimed)  The is_summarized flag of a message record is         *)
(* monotonic: once it is true no step sets it back, the record is never    *)
(* returned by get_unsummarized_messages again and it still matches        *)
(* search_chat_memories; hence a message is folded into the input of at    *)
(* most one successfully completed pass.                                   *)
(***************************************************************************)
\* message records of a tenant that are marked summarized
SummarizedMessages(coll, u) ==
    {o \in coll[u] : o.memory_type = TYPE_MESSAGE /\ o.is_summarized = "true"}

\* two passes that both completed folded no message in common
CompletedPassesDisjoint(handlers) ==
    \A h1, h2 \in Handlers :
        (/\ h1 # h2
         /\ handlers[h1].outcome = "done"
         /\ handlers[h2].outcome = "done"
         /\ handlers[h1].user_id = handlers[h2].user_id
         /\ handlers[h1].chat_id = handlers[h2].chat_id)
          => MessageIdsOf(handlers[h1].batch)
                 \cap MessageIdsOf(handlers[h2].batch) = {}

C25_Step ==
    /\ \A u \in Users : \A o \in SummarizedMessages(chatMemory, u) :
          /\ \E p \in SummarizedMessages(chatMemory', u) : p.uuid = o.uuid
          /\ o \notin UnsummarizedMatches(chatMemory, u, o.chat_id)
          /\ o \in ChatMemoryMatches(chatMemory, u, o.chat_id)
    /\ CompletedPassesDisjoint(hs')

C25_Original == [][C25_Step]_vars

(***************************************************************************)
(* C26  The input of a summarization pass is the up-to-threshold oldest    *)
(* unsummarized message-kind records of that conversation and tenant, in   *)
(* ascending creation-time order: no summary-kind record, no record of     *)
(* another conversation and no already-summarized record is in the batch,  *)
(* and no unsummarized message older than a batch member is left out.      *)
(***************************************************************************)
\* message records of the conversation that are not marked summarized
NotYetSummarized(coll, user_id, chat_id) ==
    {o \in coll[user_id] :
        /\ o.memory_type = TYPE_MESSAGE
        /\ o.chat_id = chat_id
        /\ o.user_id = user_id
        /\ o.is_summarized # "true"}

BatchIsOldestUnsummarized(batch, coll, user_id, chat_id) ==
    LET ids == {batch[i].id : i \in 1..Len(batch)}
        candidates == NotYetSummarized(coll, user_id, chat_id)
    IN  /\ Len(batch) = Min(memory_summarize_threshold,
                Cardinality(UnsummarizedMatches(coll, user_id, chat_id)))
        /\ Cardinality(ids) = Len(batch)
        /\ \A i \in 1..Len(batch) :
              \E o \in candidates :
                  /\ o.uuid = batch[i].id
                  /\ o.created_at = batch[i].created_at
                  /\ o.content = batch[i].content
        /\ \A i, j \in 1..Len(batch) :
              i < j => batch[i].created_at <= batch[j].created_at
        /\ \A o \in candidates : o.uuid \notin ids =>
              \A i \in 1..Len(batch) : o.created_at >= batch[i].created_at

\* the step in which get_unsummarized_messages hands its result to the pass
C26_FetchStep ==
    \A h \in Handlers :
        (/\ hs[h].pc = "fetch"
         /\ hs'[h].pc \in {"llm", "summarized"}
         /\ hs'[h].outcome # "error")
          => BatchIsOldestUnsummarized(hs'[h].batch, chatMemory,
                                       hs[h].user_id, hs[h].chat_id)

C26_OldestUnsummarizedBatch == [][C26_FetchStep]_vars

\* a pass took a full batch out of a longer backlog, while the tenant also
\* holds a record of another conversation
C26_Witness ==
    \E h \in Handlers :
        /\ hs[h].pc = "llm"
        /\ Len(hs[h].batch) = memory_summarize_threshold
        /\ Cardinality(NotYetSummarized(chatMemory, hs[h].user_id,
                                         hs[h].chat_id))
              > memory_summarize_threshold
        /\ \E o \in chatMemory[hs[h].user_id] : o.chat_id # hs[h].chat_id

(***************************************************************************)
(* C27  A summary record is never mutated after it is created: marking and *)
(* every later pass leave the content and all properties of existing       *)
(* summary records unchanged; a step of a pass changes only message-kind   *)
(* records of the pass's tenant and conversation whose message_id is in    *)
(* its batch, and only their is_summarized flag.                           *)
(***************************************************************************)
SummaryRecords(coll, u) == {o \in coll[u] : o.memory_type = TYPE_SUMMARY}

C27_Step ==
    \A u \in Users :
        /\ SummaryRecords(chatMemory, u) \subseteq SummaryRecords(chatMemory', u)
        /\ \A o \in chatMemory[u] : o \notin chatMemory'[u] =>
              /\ o.memory_type = TYPE_MESSAGE
              /\ [o EXCEPT !.is_summarized = "true"] \in chatMemory'[u]
              /\ \E h \in Handlers :
                    /\ hs[h].pc = "mark"
                    /\ hs[h].user_id = u
                    /\ hs[h].chat_id = o.chat_id
                    /\ o.message_id \in MessageIdsOf(hs[h].batch)

C27_SummaryImmutable == [][C27_Step]_vars

\* a pass marked its batch and completed while the conversation already held
\* the summary record of an earlier pass
C27_Witness ==
    \E h \in Handlers :
        /\ hs[h].outcome = "done"
        /\ hs[h].marked # {}
        /\ Cardinality({o \in SummaryRecords(chatMemory, hs[h].user_id) :
                            o.chat_id = hs[h].chat_id}) >= 2

(***************************************************************************)
(* C28  Summarization runs inline and in order: within one execute call    *)
(* the steps are save user message, count check, summarization pass (if    *)
(* triggered) run to completion or to its swallowed failure, then memory   *)
(* retrieval and prompt building, then streaming; the AI message is saved  *)
(* and vectorized only when the response stream has been consumed to its   *)
(* end; nothing of a pass is written while no handler is inside one.       *)
(***************************************************************************)
\* the last row of the table was appended by this step and is of sender_type
RowAppended(sender_type) ==
    /\ Len(messages') = Len(messages) + 1
    /\ messages'[Len(messages')].sender_type = sender_type

\* the chat-memory records a pass writes: summaries and summarized flags
PassWrites(coll) ==
    [u \in Users |->
        {o \in coll[u] : o.memory_type = TYPE_SUMMARY
                            \/ o.is_summarized = "true"}]

C28_Step ==
    /\ \A h \in Handlers :
          LET before == hs[h].pc
              after == hs'[h].pc
          IN  /\ (after = "saved" /\ before # after) =>
                    before = "idle" /\ RowAppended("user")
              /\ (after \in PassPcs /\ before # after) =>
                    before \in PassPcs \cup {"saved"}
              /\ (after = "summarized" /\ before # after) =>
                    /\ before \in PassPcs \cup {"saved"}
                    /\ hs'[h].outcome \in
                          {"skipped", "abort", "no_summary", "done", "error"}
              /\ (after = "prompted" /\ before # after) =>
                    before = "summarized"
              /\ (after = "stream" /\ before # after) => before = "prompted"
              /\ (after = "execute_raised" /\ before # after) =>
                    before = "prompted"
              /\ (before = "stream" /\ hs'[h].chunks # hs[h].chunks) =>
                    \/ after = "stream" /\ messages' = messages
                    \/ after = "idle"
    /\ (\A h \in Handlers : hs[h].pc \notin PassPcs) =>
          PassWrites(chatMemory') = PassWrites(chatMemory)
    /\ RowAppended("assistant") =>
          \E h \in Handlers : hs[h].pc = "stream" /\ hs'[h].pc = "idle"
    /\ Len(messages') # Len(messages) =>
          RowAppended("user") \/ RowAppended("assistant")

C28_InlineInOrder == [][C28_Step]_vars

\* a handler whose count check triggered a pass that completed is streaming
\* and has yielded every chunk but has not saved the AI message yet
C28_Witness ==
    \E h \in Handlers :
        /\ hs[h].pc = "stream"
        /\ hs[h].outcome = "done"
        /\ hs[h].marked # {}
        /\ hs[h].chunks = MaxChunks
        /\ messages[Len(messages)].sender_type = "user"

(***************************************************************************)
(* C29 (as claimed)  Every message-kind record written by                  *)
(* vectorize_message is created with is_summarized = false, so it is       *)
(* returned by get_unsummarized_messages for its conversation from the     *)
(* moment it is inserted until a pass marks it.                            *)
(***************************************************************************)
C29_Original ==
    \A u \in Users : \A o \in chatMemory[u] :
        (o.memory_type = TYPE_MESSAGE /\ o.is_summarized # "true") =>
            /\ o.is_summarized = "false"
            /\ o \in UnsummarizedMatches(chatMemory, u, o.chat_id)

(***************************************************************************)
(* C30 (as claimed)  Under any interleaving of concurrent execute calls    *)
(* and message deletions on one conversation, each time the stored message *)
(* count reaches a multiple of the threshold exactly one handler observes  *)
(* that count and starts a pass: no crossing is missed because a second    *)
(* save came between a handler's save and its count, and none is handled   *)
(* twice.                                                                  *)
(***************************************************************************)
\* handler h has made its count check
Counted(h) == hs[h].pc \notin {"idle", "saved"}

\* a handler whose save brought the count to a multiple of the threshold has
\* made its count check, and so has every other handler that saved: a pass
\* was started for the conversation
C30_NoCrossingMissed ==
    \A h \in Handlers :
        (/\ Counted(h)
         /\ StartsPass(hs[h].count_at_save)
         /\ \A g \in Handlers : hs[g].pc # "saved")
          => passes[hs[h].chat_id] >= 1

\* two handlers never start a pass on the same observed count
C30_NoCrossingTwice ==
    \A h1, h2 \in Handlers :
        (/\ h1 # h2
         /\ Counted(h1) /\ hs[h1].outcome # "skipped"
         /\ Counted(h2) /\ hs[h2].outcome # "skipped"
         /\ hs[h1].chat_id = hs[h2].chat_id)
          => hs[h1].message_count # hs[h2].message_count

C30_Original == C30_NoCrossingMissed /\ C30_NoCrossingTwice

====
